---- MODULE Spec2Model ----
(***************************************************************************)
(* Verification model of the billman message-to-transaction parser         *)
(* (src/src/lib/services/whatsappParser.ts, first WhatsAppParser class)    *)
(* and of the billing-period segmenter (billingService.ts).                *)
(*                                                                         *)
(* Text is modelled as TLA+ strings, character by character: a raw chat    *)
(* line is the string the parser receives, and every regular expression    *)
(* of the source is an operator scanning that string.                      *)
(***************************************************************************)
EXTENDS Integers, Sequences, FiniteSets, TLC


(***************************************************************************)
(* Characters and character classes of the source's regular expressions.   *)
(***************************************************************************)
\* s.charAt(i - 1): the empty string outside the string
Char(s, i) == IF i \in 1..Len(s) THEN SubSeq(s, i, i) ELSE ""

\* The set of the characters of s: new Set(s)
CharsOf(s) == {Char(s, i) : i \in 1..Len(s)}

DigitChars == {"0", "1", "2", "3", "4", "5", "6", "7", "8", "9"}

UpperChars ==
  {
   "A", "B", "C", "D", "E", "F", "G", "H", "I", "J", "K", "L", "M", "N", "O", "P",
   "Q", "R", "S", "T", "U", "V", "W", "X", "Y", "Z"}

LatinChars ==
  {
   "a", "b", "c", "d", "e", "f", "g", "h", "i", "j", "k", "l", "m", "n", "o", "p",
   "q", "r", "s", "t", "u", "v", "w", "x", "y", "z", "A", "B", "C", "D", "E", "F",
   "G", "H", "I", "J", "K", "L", "M", "N", "O", "P", "Q", "R", "S", "T", "U", "V",
   "W", "X", "Y", "Z"}

\* The assigned code points of the Bengali block, the class ঀ-৿.
BengaliChars ==
  {
   "ঀ", "ঁ", "ং", "ঃ", "অ", "আ", "ই", "ঈ", "উ", "ঊ", "ঋ", "ঌ", "এ", "ঐ", "ও", "ঔ",
   "ক", "খ", "গ", "ঘ", "ঙ", "চ", "ছ", "জ", "ঝ", "ঞ", "ট", "ঠ", "ড", "ঢ", "ণ", "ত",
   "থ", "দ", "ধ", "ন", "প", "ফ", "ব", "ভ", "ম", "য", "র", "ল", "শ", "ষ", "স", "হ",
   "়", "ঽ", "া", "ি", "ী", "ু", "ূ", "ৃ", "ৄ", "ে", "ৈ", "ো", "ৌ", "্", "ৎ", "ৗ",
   "ড", "়", "ঢ", "়", "য", "়", "ৠ", "ৡ", "ৢ", "ৣ", "০", "১", "২", "৩", "৪", "৫",
   "৬", "৭", "৮", "৯", "ৰ", "ৱ", "৲", "৳", "৴", "৵", "৶", "৷", "৸", "৹", "৺", "৻",
   "ৼ", "৽", "৾"}

\* [a-zA-Zঀ-৿]
LetterChars ==
  {
   "a", "b", "c", "d", "e", "f", "g", "h", "i", "j", "k", "l", "m", "n", "o", "p",
   "q", "r", "s", "t", "u", "v", "w", "x", "y", "z", "A", "B", "C", "D", "E", "F",
   "G", "H", "I", "J", "K", "L", "M", "N", "O", "P", "Q", "R", "S", "T", "U", "V",
   "W", "X", "Y", "Z", "ঀ", "ঁ", "ং", "ঃ", "অ", "আ", "ই", "ঈ", "উ", "ঊ", "ঋ", "ঌ",
   "এ", "ঐ", "ও", "ঔ", "ক", "খ", "গ", "ঘ", "ঙ", "চ", "ছ", "জ", "ঝ", "ঞ", "ট", "ঠ",
   "ড", "ঢ", "ণ", "ত", "থ", "দ", "ধ", "ন", "প", "ফ", "ব", "ভ", "ম", "য", "র", "ল",
   "শ", "ষ", "স", "হ", "়", "ঽ", "া", "ি", "ী", "ু", "ূ", "ৃ", "ৄ", "ে", "ৈ", "ো",
   "ৌ", "্", "ৎ", "ৗ", "ড", "়", "ঢ", "়", "য", "়", "ৠ", "ৡ", "ৢ", "ৣ", "০", "১",
   "২", "৩", "৪", "৫", "৬", "৭", "৮", "৯", "ৰ", "ৱ", "৲", "৳", "৴", "৵", "৶", "৷",
   "৸", "৹", "৺", "৻", "ৼ", "৽", "৾"}

\* \w of a JavaScript regular expression without the u flag: [A-Za-z0-9_]
WordChars ==
  {
   "a", "b", "c", "d", "e", "f", "g", "h", "i", "j", "k", "l", "m", "n", "o", "p",
   "q", "r", "s", "t", "u", "v", "w", "x", "y", "z", "A", "B", "C", "D", "E", "F",
   "G", "H", "I", "J", "K", "L", "M", "N", "O", "P", "Q", "R", "S", "T", "U", "V",
   "W", "X", "Y", "Z", "0", "1", "2", "3", "4", "5", "6", "7", "8", "9", "_"}

\* \s, restricted to the white space that occurs inside one line
SpaceChars == {" "}

IsDigit(c) == c \in DigitChars

IsLetter(c) == c \in LetterChars

IsSpace(c) == c \in SpaceChars

\* The first index >= i of s whose character is not in class (Len(s)+1 if none):
\* the end of a greedy run class* that starts at i.
RECURSIVE RunEnd(_, _, _)
RunEnd(s, i, class) ==
  IF i > Len(s) \/ Char(s, i) \notin class THEN i ELSE RunEnd(s, i + 1, class)

\* String.prototype.trim
RECURSIVE TrimLeft(_)
TrimLeft(s) == IF s # "" /\ IsSpace(Char(s, 1)) THEN TrimLeft(Tail(s)) ELSE s

RECURSIVE TrimRight(_)
TrimRight(s) ==
  IF s # "" /\ IsSpace(Char(s, Len(s))) THEN TrimRight(SubSeq(s, 1, Len(s) - 1)) ELSE s

Trim(s) == TrimLeft(TrimRight(s))

\* String.prototype.toLowerCase (Bengali has no case)
LowerOf ==
  "A" :> "a" @@ "B" :> "b" @@ "C" :> "c" @@ "D" :> "d" @@ "E" :> "e" @@ "F" :> "f" @@
  "G" :> "g" @@ "H" :> "h" @@ "I" :> "i" @@ "J" :> "j" @@ "K" :> "k" @@ "L" :> "l" @@
  "M" :> "m" @@ "N" :> "n" @@ "O" :> "o" @@ "P" :> "p" @@ "Q" :> "q" @@ "R" :> "r" @@
  "S" :> "s" @@ "T" :> "t" @@ "U" :> "u" @@ "V" :> "v" @@ "W" :> "w" @@ "X" :> "x" @@
  "Y" :> "y" @@ "Z" :> "z"

LowerChar(c) == IF c \in UpperChars THEN LowerOf[c] ELSE c

RECURSIVE toLowerCase(_)
toLowerCase(s) == IF s = "" THEN "" ELSE LowerChar(Char(s, 1)) \o toLowerCase(Tail(s))

\* String.prototype.includes
Includes(hay, needle) ==
  \E k \in 1..(Len(hay) - Len(needle) + 1) : SubSeq(hay, k, k + Len(needle) - 1) = needle

\* The first index at which needle occurs in hay, 0 if none (indexOf + 1)
IndexOf(hay, needle) ==
  IF Includes(hay, needle)
  THEN CHOOSE k \in 1..(Len(hay) - Len(needle) + 1) :
         /\ SubSeq(hay, k, k + Len(needle) - 1) = needle
         /\ \A j \in 1..(k - 1) : SubSeq(hay, j, j + Len(needle) - 1) # needle
  ELSE 0

\* s with every character outside class removed: s.replace(/[^class]/g, '')
RECURSIVE Keep(_, _)
Keep(s, class) ==
  IF s = "" THEN ""
  ELSE (IF Char(s, 1) \in class THEN Char(s, 1) ELSE "") \o Keep(Tail(s), class)

\* text.split(/\s+/) of a trimmed, non-empty text: its maximal runs of non-space
RECURSIVE SplitFrom(_, _)
SplitFrom(s, i) ==
  IF i > Len(s) THEN <<>>
  ELSE IF IsSpace(Char(s, i)) THEN SplitFrom(s, RunEnd(s, i, SpaceChars))
  ELSE LET e == CHOOSE k \in i..(Len(s) + 1) :
                  /\ (k > Len(s) \/ IsSpace(Char(s, k)))
                  /\ \A j \in i..(k - 1) : ~IsSpace(Char(s, j))
       IN <<SubSeq(s, i, e - 1)>> \o SplitFrom(s, e)

Split(s) == SplitFrom(s, 1)

\* parseFloat / Number of a string of decimal digits
RECURSIVE parseDigits(_)
DigitValue ==
  "0" :> 0 @@ "1" :> 1 @@ "2" :> 2 @@ "3" :> 3 @@ "4" :> 4 @@
  "5" :> 5 @@ "6" :> 6 @@ "7" :> 7 @@ "8" :> 8 @@ "9" :> 9

parseDigits(s) ==
  IF s = "" THEN 0
  ELSE 10 * parseDigits(SubSeq(s, 1, Len(s) - 1)) + DigitValue[Char(s, Len(s))]

(***************************************************************************)
(* Dates.  A Date is the number of minutes since 1970-01-01 00:00 of the   *)
(* local wall clock (no seconds occur in the parser's dates).              *)
(***************************************************************************)
\* Days from 1970-01-01 to the civil date y-m-d (m in 1..12; d may overflow)
DaysFromCivil(y, m, d) ==
  LET yy  == IF m <= 2 THEN y - 1 ELSE y
      era == yy \div 400
      yoe == yy - era * 400
      mp  == (m + 9) % 12
      doy == (153 * mp + 2) \div 5 + d - 1
      doe == yoe * 365 + yoe \div 4 - yoe \div 100 + doy
  IN era * 146097 + doe - 719468

\* new Date(year, monthIndex, day, hours, minutes): monthIndex is 0-based and,
\* like day, hours and minutes, may lie outside its range and carries over.
NewDate(year, monthIndex, day, hours, minutes) ==
  (DaysFromCivil(year + (monthIndex \div 12), (monthIndex % 12) + 1, 1) + day - 1) * 1440
    + hours * 60 + minutes

\* `let currentDate: Date | null = null`: the null date
NoDate == -1

MinutesPerWindow == 5

\* parseDate(dateStr, timeStr, ampm), on the matched groups already split at
\* '/' and ':' and converted by Number
parseDate(day, month, year, hours, minutes, ampm) ==
  LET fullYear == IF year < 100 THEN 2000 + year ELSE year
      adjustedHours ==
        IF ampm = "pm" /\ hours # 12 THEN hours + 12
        ELSE IF ampm = "am" /\ hours = 12 THEN 0
        ELSE hours
  IN NewDate(fullYear, month - 1, day, adjustedHours, minutes)

(***************************************************************************)
(* The message header pattern                                              *)
(*   /^(\d{1,2}\/\d{1,2}\/\d{2,4}),\s*(\d{1,2}:\d{2})\s*(am|pm)?\s*-\s*     *)
(*    ([^:]+):\s*(.+)$/i                                                   *)
(* matched against one trimmed line.  The result carries the groups, or    *)
(* ok = FALSE when the line is no header.                                  *)
(***************************************************************************)
NoMatch ==
  [ok |-> FALSE, day |-> 0, month |-> 0, year |-> 0, hours |-> 0, minutes |-> 0,
   ampm |-> "", sender |-> "", message |-> ""]

\* The index of the first ':' of s at or after i, 0 if there is none
FirstColon(s, i) ==
  IF \E k \in i..Len(s) : Char(s, k) = ":"
  THEN CHOOSE k \in i..Len(s) : Char(s, k) = ":" /\ \A j \in i..(k - 1) : Char(s, j) # ":"
  ELSE 0

\* (\d{1,2}\/\d{1,2}\/\d{2,4}): where the digits of day, month and year end
dateGroup(line) ==
  LET dEnd == RunEnd(line, 1, DigitChars)
      mEnd == RunEnd(line, dEnd + 1, DigitChars)
  IN [dEnd |-> dEnd, mEnd |-> mEnd, yEnd |-> RunEnd(line, mEnd + 1, DigitChars)]

\* ,\s*(\d{1,2}:\d{2}) after the year, which ends at yEnd
timeGroup(line, yEnd) ==
  LET hBeg == RunEnd(line, yEnd + 1, SpaceChars)
      hEnd == RunEnd(line, hBeg, DigitChars)
  IN [hBeg |-> hBeg, hEnd |-> hEnd, miEnd |-> RunEnd(line, hEnd + 1, DigitChars)]

\* \s*(am|pm)?\s* after the minutes, which end at miEnd: the group (lower
\* case, "" if absent) and the place where the dash must stand
ampmGroup(line, miEnd) ==
  LET apBeg == RunEnd(line, miEnd, SpaceChars)
      apTxt == toLowerCase(SubSeq(line, apBeg, apBeg + 1))
      hasAp == apBeg + 1 <= Len(line) /\ apTxt \in {"am", "pm"}
  IN [ampm |-> IF hasAp THEN apTxt ELSE "",
      dash |-> RunEnd(line, IF hasAp THEN apBeg + 2 ELSE apBeg, SpaceChars)]

\* \s*([^:]+):\s* after the dash: where the sender begins, its colon, and
\* where the message begins
senderGroup(line, dash) ==
  LET sBeg0 == RunEnd(line, dash + 1, SpaceChars)
      \* [^:]+ needs one character: \s* gives its last blank back when the
      \* colon follows the blanks directly
      sBeg  == IF Char(line, sBeg0) = ":" /\ sBeg0 > dash + 1 THEN sBeg0 - 1 ELSE sBeg0
      colon == FirstColon(line, sBeg)
  IN [sBeg |-> sBeg, colon |-> colon, bBeg |-> RunEnd(line, colon + 1, SpaceChars)]

\* The match of the whole pattern, given the places d, t, a and s of its groups
headerMatch(line, d, t, a, s) ==
  IF /\ d.dEnd - 1 \in 1..2 /\ Char(line, d.dEnd) = "/"
     /\ d.mEnd - (d.dEnd + 1) \in 1..2 /\ Char(line, d.mEnd) = "/"
     /\ d.yEnd - (d.mEnd + 1) \in 2..4 /\ Char(line, d.yEnd) = ","
     /\ t.hEnd - t.hBeg \in 1..2 /\ Char(line, t.hEnd) = ":"
     /\ t.miEnd - (t.hEnd + 1) = 2
     /\ Char(line, a.dash) = "-"
     /\ s.colon > s.sBeg
     /\ s.bBeg <= Len(line)
  THEN [ok |-> TRUE,
        day |-> parseDigits(SubSeq(line, 1, d.dEnd - 1)),
        month |-> parseDigits(SubSeq(line, d.dEnd + 1, d.mEnd - 1)),
        year |-> parseDigits(SubSeq(line, d.mEnd + 1, d.yEnd - 1)),
        hours |-> parseDigits(SubSeq(line, t.hBeg, t.hEnd - 1)),
        minutes |-> parseDigits(SubSeq(line, t.hEnd + 1, t.miEnd - 1)),
        ampm |-> a.ampm,
        sender |-> SubSeq(line, s.sBeg, s.colon - 1),
        message |-> SubSeq(line, s.bBeg, Len(line))]
  ELSE NoMatch

senderPart(line, d, t, a) == headerMatch(line, d, t, a, senderGroup(line, a.dash))

ampmPart(line, d, t) == senderPart(line, d, t, ampmGroup(line, t.miEnd))

timePart(line, d) == ampmPart(line, d, timeGroup(line, d.yEnd))

messagePattern(line) == timePart(line, dateGroup(line))

\* s.replace(/\s+/g, ' ')
RECURSIVE CollapseSpaces(_)
CollapseSpaces(s) ==
  IF s = "" THEN ""
  ELSE IF IsSpace(Char(s, 1))
       THEN " " \o CollapseSpaces(SubSeq(s, RunEnd(s, 1, SpaceChars), Len(s)))
       ELSE Char(s, 1) \o CollapseSpaces(Tail(s))

\* [\w\sঀ-৿]
NameChars ==
  {
   "a", "b", "c", "d", "e", "f", "g", "h", "i", "j", "k", "l", "m", "n", "o", "p",
   "q", "r", "s", "t", "u", "v", "w", "x", "y", "z", "A", "B", "C", "D", "E", "F",
   "G", "H", "I", "J", "K", "L", "M", "N", "O", "P", "Q", "R", "S", "T", "U", "V",
   "W", "X", "Y", "Z", "0", "1", "2", "3", "4", "5", "6", "7", "8", "9", "_", " ",
   "ঀ", "ঁ", "ং", "ঃ", "অ", "আ", "ই", "ঈ", "উ", "ঊ", "ঋ", "ঌ", "এ", "ঐ", "ও", "ঔ",
   "ক", "খ", "গ", "ঘ", "ঙ", "চ", "ছ", "জ", "ঝ", "ঞ", "ট", "ঠ", "ড", "ঢ", "ণ", "ত",
   "থ", "দ", "ধ", "ন", "প", "ফ", "ব", "ভ", "ম", "য", "র", "ল", "শ", "ষ", "স", "হ",
   "়", "ঽ", "া", "ি", "ী", "ু", "ূ", "ৃ", "ৄ", "ে", "ৈ", "ো", "ৌ", "্", "ৎ", "ৗ",
   "ড", "়", "ঢ", "়", "য", "়", "ৠ", "ৡ", "ৢ", "ৣ", "০", "১", "২", "৩", "৪", "৫",
   "৬", "৭", "৮", "৯", "ৰ", "ৱ", "৲", "৳", "৴", "৵", "৶", "৷", "৸", "৹", "৺", "৻",
   "ৼ", "৽", "৾"}

\* normalizeSenderName (validation/schemas)
normalizeSenderName(sender) ==
  LET kept == Keep(CollapseSpaces(Trim(sender)), NameChars)
  IN SubSeq(kept, 1, IF Len(kept) < 100 THEN Len(kept) ELSE 100)

\* line.replace(/বিবরণ\s+/gi, ''): every "বিবরণ" that is followed by white
\* space is removed together with that white space
RECURSIVE StripBiboron(_)
StripBiboron(s) ==
  IF s = "" THEN ""
  ELSE IF SubSeq(s, 1, IF Len(s) < 5 THEN Len(s) ELSE 5) = "বিবরণ" /\ IsSpace(Char(s, 6))
       THEN StripBiboron(SubSeq(s, RunEnd(s, 6, SpaceChars), Len(s)))
       ELSE Char(s, 1) \o StripBiboron(Tail(s))

\* convertBengaliNumerals
BengaliDigits == {"০", "১", "২", "৩", "৪", "৫", "৬", "৭", "৮", "৯"}

\* bengaliToWestern
bengaliToWestern ==
  "০" :> "0" @@ "১" :> "1" @@ "২" :> "2" @@ "৩" :> "3" @@ "৪" :> "4" @@
  "৫" :> "5" @@ "৬" :> "6" @@ "৭" :> "7" @@ "৮" :> "8" @@ "৯" :> "9"

RECURSIVE convertBengaliNumerals(_)
convertBengaliNumerals(text) ==
  IF text = "" THEN ""
  ELSE (IF Char(text, 1) \in BengaliDigits
        THEN bengaliToWestern[Char(text, 1)]
        ELSE Char(text, 1)) \o convertBengaliNumerals(Tail(text))

(***************************************************************************)
(* Item vocabulary: standardizeTerminology and isValidItem.                *)
(***************************************************************************)
\* The entries of ITEM_MAP in property order (a key written twice keeps its
\* first place; both writings carry the same value)
ITEM_MAP ==
  <<<<"dudh", "milk">>, <<"dhud", "milk">>, <<"tedars", "tissues">>,
    <<"dim", "eggs">>, <<"moris", "chillies">>, <<"tel", "oil">>,
    <<"alo", "potato">>, <<"chal", "rice">>, <<"ata", "flour">>,
    <<"piaz", "onion">>, <<"rosun", "garlic">>, <<"ada", "ginger">>,
    <<"holud", "turmeric">>, <<"jira", "cumin">>, <<"saban", "soap">>,
    <<"vimbar", "vim">>, <<"rin", "rin">>, <<"rc", "rc cola">>,
    <<"coff", "coffee">>, <<"koyel", "koyel">>, <<"koyel60", "koyel">>,
    <<"koyle", "koyel">>, <<"koyl", "koyel">>, <<"teel", "oil">>,
    <<"teil", "oil">>, <<"chaal", "rice">>, <<"chall", "rice">>,
    <<"aloo", "potato">>, <<"aluu", "potato">>, <<"deem", "eggs">>,
    <<"dimm", "eggs">>, <<"piyaz", "onion">>, <<"peaz", "onion">>,
    <<"roshun", "garlic">>, <<"rosoon", "garlic">>, <<"sabun", "soap">>,
    <<"sabon", "soap">>, <<"arr", "rc cola">>, <<"arsi", "rc cola">>,
    <<"majoni", "mayonnaise">>, <<"mosla", "spice">>, <<"chini", "sugar">>,
    <<"ghee", "ghee">>, <<"dal", "lentils">>, <<"beson", "gram flour">>,
    <<"semai", "vermicelli">>, <<"muri", "puffed rice">>,
    <<"chanachur", "chanachur">>, <<"biscuits", "biscuits">>,
    <<"paratha", "paratha">>, <<"chapati", "chapati">>, <<"noodles", "noodles">>,
    <<"pasta", "pasta">>, <<"sauce", "sauce">>, <<"kismis", "raisins">>,
    <<"badam", "almonds">>, <<"tissue", "tissue">>, <<"paste", "toothpaste">>,
    <<"shampoo", "shampoo">>, <<"brush", "brush">>, <<"razor", "razor">>,
    <<"freedom", "freedom pad">>, <<"whisper", "whisper pad">>,
    <<"harpic", "harpic">>, <<"lizol", "lizol">>, <<"savlon", "savlon">>,
    <<"ponds", "ponds">>, <<"lux", "lux soap">>, <<"dew", "dew">>,
    <<"sprite", "sprite">>, <<"coke", "coke">>, <<"pepsi", "pepsi">>>>

\* Object.keys(ITEM_MAP)
ItemKeys ==
  {"dudh", "dhud", "tedars", "dim", "moris", "tel", "alo", "chal",
   "ata", "piaz", "rosun", "ada", "holud", "jira", "saban", "vimbar",
   "rin", "rc", "coff", "koyel", "koyel60", "koyle", "koyl", "teel",
   "teil", "chaal", "chall", "aloo", "aluu", "deem", "dimm", "piyaz",
   "peaz", "roshun", "rosoon", "sabun", "sabon", "arr", "arsi", "majoni",
   "mosla", "chini", "ghee", "dal", "beson", "semai", "muri", "chanachur",
   "biscuits", "paratha", "chapati", "noodles", "pasta", "sauce", "kismis", "badam",
   "tissue", "paste", "shampoo", "brush", "razor", "freedom", "whisper", "harpic",
   "lizol", "savlon", "ponds", "lux", "dew", "sprite", "coke", "pepsi"}

\* ITEM_MAP[key] is defined
HasKey(key) == key \in ItemKeys

Lookup(key) == ITEM_MAP[CHOOSE k \in 1..Len(ITEM_MAP) : ITEM_MAP[k][1] = key][2]

\* s.replace(/\d+$/, '')
RECURSIVE StripTrailingDigits(_)
StripTrailingDigits(s) ==
  IF s # "" /\ IsDigit(Char(s, Len(s))) THEN StripTrailingDigits(SubSeq(s, 1, Len(s) - 1)) ELSE s

Abs(n) == IF n < 0 THEN -n ELSE n

PartialMatch(k, lowerItem) ==
  /\ Abs(Len(ITEM_MAP[k][1]) - Len(lowerItem)) <= 2
  /\ Includes(ITEM_MAP[k][1], lowerItem) \/ Includes(lowerItem, ITEM_MAP[k][1])

standardizeTerminology(item) ==
  LET lowerItem == toLowerCase(item)
      withoutNumbers == StripTrailingDigits(lowerItem)
  IN IF HasKey(lowerItem) THEN Lookup(lowerItem)
     ELSE IF HasKey(withoutNumbers) THEN Lookup(withoutNumbers)
     ELSE IF \E k \in 1..Len(ITEM_MAP) : PartialMatch(k, lowerItem)
          THEN ITEM_MAP[CHOOSE k \in 1..Len(ITEM_MAP) :
                          /\ PartialMatch(k, lowerItem)
                          /\ \A j \in 1..(k - 1) : ~PartialMatch(j, lowerItem)][2]
          ELSE item

invalidItems ==
  {"নং", "pm", "am", "monir", "munia", "mustari", "null", "total", "https",
   "http", "www", "com", "org", "net", "co", "bd", "deleted", "message", "media",
   "omitted", "encrypted", "কেনা", "বাকি", "পূর্বের", "বর্তমান", "লেনদেন",
   "রেকর্ড", "পরিশোধ", "january", "february", "march", "april", "may", "june",
   "july", "august", "september", "october", "november", "december", "jan", "feb",
   "mar", "apr", "jun", "jul", "aug", "sep", "oct", "nov", "dec", "জানুয়ারি",
   "জানুয়ারী", "ফেব্রুয়ারি", "ফেব্রুয়ারী", "মার্চ", "এপ্রিল", "মে", "জুন",
   "জুলাই", "আগস্ট", "সেপ্টেম্বর", "অক্টোবর", "নভেম্বর", "ডিসেম্বর", "জুমা",
   "জুম্মা", "জুমার", "জুম্মার", "জমা", "মাস", "বছর", "দিন", "সপ্তাহ", "তারিখ",
   "যেভাবে", "পেমেন্ট", "করতে", "পারবেন", "কাস্টমার", "মোবাইল", "দোকানের",
   "সুপার", "কোডে", "আপনার", "বিকাশ", "রকেট", "ব্যাংক", "অ্যাপ", "থেকে",
   "স্ক্যান", "করে", "বিস্তারিত", "লিংকে", "দেখুন", "মৌরি", "দিও", "lagbe", "dio",
   "takar", "তাকার", "টাকার", "joma"}

AllDigits(s) == s # "" /\ \A k \in 1..Len(s) : IsDigit(Char(s, k))

isValidItem(item) ==
  /\ toLowerCase(item) \notin invalidItems
  /\ ~(AllDigits(item) \/ Len(item) > 20)

(***************************************************************************)
(* findSimpleItemAmountPairs.  A pair carries the strategy that found it.  *)
(* Both rejecting branches build their log line from `item` (and, in the   *)
(* second strategy, `amount`), names that are bound nowhere in the method  *)
(* or the module: evaluating them raises a ReferenceError, which leaves    *)
(* the method.  threw = TRUE is that exit.                                 *)
(***************************************************************************)
MaxAmount == 1000

\* /^[a-zA-Zঀ-৿]/.test(word)
StartsWithLetter(word) == IsLetter(Char(word, 1))

\* /^\d+(\.\d+)?$/.test(word); the inputs carry no '.', so the optional
\* fraction never takes part
IsNumberWord(word) == AllDigits(word)

\* A test that forgets the upper limit
AcceptsAnyAmount(rawItem, amount) == isValidItem(rawItem) /\ amount > 0

AcceptsPair(rawItem, amount) == isValidItem(rawItem) /\ amount > 0 /\ amount <= MaxAmount

\* Strategy 1: the loop over words[i], words[i + 1] from index i on
RECURSIVE SpacedPairs(_, _, _)
SpacedPairs(words, i, pairs) ==
  IF i > Len(words) - 1 THEN [threw |-> FALSE, pairs |-> pairs]
  ELSE IF StartsWithLetter(words[i]) /\ IsNumberWord(words[i + 1])
       THEN LET rawItem == Trim(words[i])
                amount  == parseDigits(words[i + 1])
            IN IF AcceptsPair(rawItem, amount)
               THEN SpacedPairs(words, i + 1,
                      Append(pairs, [item |-> standardizeTerminology(rawItem),
                                     amount |-> amount, via |-> "spaced"]))
               ELSE [threw |-> TRUE, pairs |-> pairs]
       ELSE SpacedPairs(words, i + 1, pairs)

\* text.match(/([a-zA-Zঀ-৿]+)(\d+)/g): the matches from index p on, each as
\* <<letters, digits>>
RECURSIVE AttachedMatches(_, _)
AttachedMatches(text, p) ==
  IF p > Len(text) THEN <<>>
  ELSE IF ~IsLetter(Char(text, p)) THEN AttachedMatches(text, p + 1)
  ELSE LET b == RunEnd(text, p, LetterChars)
           e == RunEnd(text, b, DigitChars)
       IN IF e > b
          THEN <<(<<SubSeq(text, p, b - 1), SubSeq(text, b, e - 1)>>)>>
                 \o AttachedMatches(text, e)
          ELSE AttachedMatches(text, b)

\* Strategy 2: the loop over the attached matches from index k on
RECURSIVE AttachedPairs(_, _, _)
AttachedPairs(matches, k, pairs) ==
  IF k > Len(matches) THEN [threw |-> FALSE, pairs |-> pairs]
  ELSE LET rawItem == Trim(matches[k][1])
           attachedNumber == parseDigits(matches[k][2])
           isTypo == standardizeTerminology(rawItem \o matches[k][2])
                       # (rawItem \o matches[k][2])
       IN IF isTypo THEN AttachedPairs(matches, k + 1, pairs)
          ELSE IF AcceptsPair(rawItem, attachedNumber)
               THEN AttachedPairs(matches, k + 1,
                      Append(pairs, [item |-> standardizeTerminology(rawItem),
                                     amount |-> attachedNumber, via |-> "attached"]))
               ELSE [threw |-> TRUE, pairs |-> pairs]

findSimpleItemAmountPairs(text) ==
  LET convertedText == convertBengaliNumerals(text)
      spaced == SpacedPairs(Split(convertedText), 1, <<>>)
  IN IF spaced.threw THEN spaced
     ELSE AttachedPairs(AttachedMatches(convertedText, 1), 1, spaced.pairs)

(***************************************************************************)
(* validateAndExtractTransactions.  A Transaction is modelled by its id,   *)
(* date, sender, item, amount and originalMessage; createdAt and updatedAt *)
(* (the wall clock) are left out.  Two fields are history only and are     *)
(* read by no operation: line, the lineNumber argument the transaction was *)
(* made under, and via, the branch that made it.                           *)
(***************************************************************************)
\* convertedText.match(/কেনা\s+(\d+)/i): the digits of the first match, or ""
KenaAt(text, k) ==
  /\ SubSeq(text, k, k + 3) = "কেনা"
  /\ IsSpace(Char(text, k + 4))
  /\ IsDigit(Char(text, RunEnd(text, k + 4, SpaceChars)))

kenaMatch(text) ==
  IF \E k \in 1..(Len(text) - 5) : KenaAt(text, k)
  THEN LET k == CHOOSE k \in 1..(Len(text) - 5) :
                  KenaAt(text, k) /\ \A j \in 1..(k - 1) : ~KenaAt(text, j)
           b == RunEnd(text, k + 4, SpaceChars)
       IN SubSeq(text, b, RunEnd(text, b, DigitChars) - 1)
  ELSE ""

\* convertedText.match(/বিবরণ\s+(.+?)(?=\s*moriom|$)/i), trimmed; 'purchase'
\* when there is no match
BiboronAt(text, k) ==
  /\ SubSeq(text, k, k + 4) = "বিবরণ"
  /\ IsSpace(Char(text, k + 5))
  /\ RunEnd(text, k + 5, SpaceChars) <= Len(text)

itemDescription(text) ==
  IF \E k \in 1..(Len(text) - 6) : BiboronAt(text, k)
  THEN LET k == CHOOSE k \in 1..(Len(text) - 6) :
                  BiboronAt(text, k) /\ \A j \in 1..(k - 1) : ~BiboronAt(text, j)
           rest == SubSeq(text, RunEnd(text, k + 5, SpaceChars), Len(text))
           \* the lazy group takes one character at least, then stops before
           \* the first "moriom" (any case) that follows
           m == IndexOf(toLowerCase(Tail(rest)), "moriom")
       IN Trim(IF m > 0 THEN SubSeq(rest, 1, m) ELSE rest)
  ELSE "purchase"

\* /\d/.test(word)
HasDigit(word) == \E k \in 1..Len(word) : IsDigit(Char(word, k))

RECURSIVE MapItems(_)
MapItems(pairs) ==
  IF pairs = <<>> THEN {} ELSE {toLowerCase(Head(pairs).item)} \cup MapItems(Tail(pairs))

\* findItemsWithoutAmounts: the loop over the words from index k on
RECURSIVE ItemsWithoutAmountsFrom(_, _, _)
ItemsWithoutAmountsFrom(words, k, existingItems) ==
  IF k > Len(words) THEN <<>>
  ELSE LET cleanWord == Keep(words[k], LetterChars)
       IN (IF /\ Len(cleanWord) > 2
              /\ isValidItem(cleanWord)
              /\ toLowerCase(cleanWord) \notin existingItems
              /\ ~HasDigit(words[k])
           THEN <<cleanWord>> ELSE <<>>)
          \o ItemsWithoutAmountsFrom(words, k + 1, existingItems)

findItemsWithoutAmounts(text, existingPairs) ==
  ItemsWithoutAmountsFrom(Split(text), 1, MapItems(existingPairs))

\* /বিবরণ\s+([a-zA-Zঀ-৿]+)\s*$/i: the item of a text that ends in
\* "বিবরণ <letters>", or "" when there is no match
itemOnlyMatch(text) ==
  LET words == Split(text)
      n == Len(words)
  IN IF /\ n >= 2
        /\ Len(words[n - 1]) >= 5
        /\ SubSeq(words[n - 1], Len(words[n - 1]) - 4, Len(words[n - 1])) = "বিবরণ"
        /\ \A k \in 1..Len(words[n]) : IsLetter(Char(words[n], k))
     THEN words[n] ELSE ""

\* The transactions of the loop `for (const pair of pairs)` from index k on
RECURSIVE PairTransactions(_, _, _, _, _, _)
PairTransactions(pairs, k, text, sender, date, lineNumber) ==
  IF k > Len(pairs) THEN <<>>
  ELSE (IF pairs[k].amount > 0 /\ isValidItem(pairs[k].item)
        THEN <<[id |-> <<lineNumber, k>>, date |-> date, sender |-> sender,
                item |-> pairs[k].item, amount |-> pairs[k].amount,
                originalMessage |-> text, line |-> lineNumber, via |-> pairs[k].via]>>
        ELSE <<>>)
       \o PairTransactions(pairs, k + 1, text, sender, date, lineNumber)

\* The structured-total transaction of the "কেনা" branch
KenaTransaction(convertedText, text, sender, date, lineNumber) ==
  [id |-> <<lineNumber, 1>>, date |-> date, sender |-> sender,
   item |-> itemDescription(convertedText),
   amount |-> parseDigits(kenaMatch(convertedText)),
   originalMessage |-> text, line |-> lineNumber, via |-> "kena"]

\* The needs-review entries the method collects beside its transactions
SuspiciousOf(convertedText, text, pairs) ==
  LET itemsWithoutAmounts == findItemsWithoutAmounts(convertedText, pairs)
      item == itemOnlyMatch(convertedText)
  IN (IF /\ Len(pairs) = 0 /\ Len(itemsWithoutAmounts) = 0
         /\ item # "" /\ isValidItem(item)
      THEN <<[reason |-> "no_amount", originalMessage |-> text]>> ELSE <<>>)
     \o (IF Len(itemsWithoutAmounts) > 0
         THEN <<[reason |-> "missing_items", originalMessage |-> text]>> ELSE <<>>)

validateAndExtractTransactions(text, sender, date, lineNumber) ==
  LET convertedText == convertBengaliNumerals(text)
  IN IF kenaMatch(convertedText) # ""
     THEN [threw |-> FALSE,
           transactions |-> <<KenaTransaction(convertedText, text, sender, date, lineNumber)>>,
           suspicious |-> <<>>]
     ELSE LET found == findSimpleItemAmountPairs(convertedText)
          IN IF found.threw
             THEN [threw |-> TRUE, transactions |-> <<>>, suspicious |-> <<>>]
             ELSE [threw |-> FALSE,
                   transactions |->
                     PairTransactions(found.pairs, 1, text, sender, date, lineNumber),
                   suspicious |-> SuspiciousOf(convertedText, text, found.pairs)]

(***************************************************************************)
(* The Similarity Grouper: contextBasedCategorizing.                       *)
(***************************************************************************)
\* s.replace(/[class]/g, '')
RECURSIVE Remove(_, _)
Remove(s, class) ==
  IF s = "" THEN ""
  ELSE (IF Char(s, 1) \in class THEN "" ELSE Char(s, 1)) \o Remove(Tail(s), class)

getNormalizedItemKey(item) ==
  Trim(Remove(Keep(Remove(toLowerCase(item), DigitChars), NameChars), SpaceChars))

\* The threshold 0.2 of `similarity > 0.2`, in percent
SimilarityThreshold == 20

\* calculateSimilarity: <<intersection.size, union.size>>, the quotient's terms
calculateSimilarity(str1, str2) ==
  <<Cardinality(CharsOf(str1) \cap CharsOf(str2)),
    Cardinality(CharsOf(str1) \cup CharsOf(str2))>>

\* similarity > 0.2 (0 / 0 is NaN, which exceeds nothing)
IsSimilar(key1, key2) ==
  LET q == calculateSimilarity(key1, key2)
  IN q[2] > 0 /\ 100 * q[1] > SimilarityThreshold * q[2]

\* The elements of seq in the order of their first occurrence: the key order
\* of a Map filled from seq
RECURSIVE DistinctInOrder(_, _)
DistinctInOrder(seq, seen) ==
  IF seq = <<>> THEN <<>>
  ELSE IF Head(seq) \in seen THEN DistinctInOrder(Tail(seq), seen)
  ELSE <<Head(seq)>> \o DistinctInOrder(Tail(seq), seen \cup {Head(seq)})

RECURSIVE CountOf(_, _)
CountOf(seq, x) ==
  IF seq = <<>> THEN 0 ELSE (IF Head(seq) = x THEN 1 ELSE 0) + CountOf(Tail(seq), x)

\* The first loop of chooseBestItemName over the entries of nameCount from k on
RECURSIVE MostFrequent(_, _, _, _, _)
MostFrequent(names, itemNames, k, bestName, maxCount) ==
  IF k > Len(names) THEN [bestName |-> bestName, maxCount |-> maxCount]
  ELSE LET count == CountOf(itemNames, names[k])
       IN IF count > maxCount \/ (count = maxCount /\ Len(names[k]) < Len(bestName))
          THEN MostFrequent(names, itemNames, k + 1, names[k], count)
          ELSE MostFrequent(names, itemNames, k + 1, bestName, maxCount)

chooseBestItemName(itemNames) ==
  LET first == MostFrequent(DistinctInOrder(itemNames, {}), itemNames, 1, itemNames[1], 0)
      NotDigitFirst(name) == ~IsDigit(Char(name, 1))
      cleanNames == SelectSeq(itemNames, NotDigitFirst)
      clean == DistinctInOrder(cleanNames, {})
      \* count >= maxCount * 0.5
      Enough(k) == 2 * CountOf(cleanNames, clean[k]) >= first.maxCount
  IN IF \E k \in 1..Len(clean) : Enough(k)
     THEN clean[CHOOSE k \in 1..Len(clean) : Enough(k) /\ \A j \in 1..(k - 1) : ~Enough(j)]
     ELSE first.bestName

RECURSIVE KeysOf(_)
KeysOf(transactions) ==
  IF transactions = <<>> THEN <<>>
  ELSE <<getNormalizedItemKey(Head(transactions).item)>> \o KeysOf(Tail(transactions))

RECURSIVE ItemsOf(_)
ItemsOf(transactions) ==
  IF transactions = <<>> THEN <<>>
  ELSE <<Head(transactions).item>> \o ItemsOf(Tail(transactions))

\* exactGroups.get(key)
GroupOf(transactions, key) ==
  LET HasKeyOf(t) == getNormalizedItemKey(t.item) = key
  IN SelectSeq(transactions, HasKeyOf)

RECURSIVE FlatGroups(_, _)
FlatGroups(transactions, keys) ==
  IF keys = <<>> THEN <<>>
  ELSE GroupOf(transactions, Head(keys)) \o FlatGroups(transactions, Tail(keys))

\* A rewrite that spreads the first transaction of the group into every one
RenamedAsFirst(transactions, name) ==
  [k \in 1..Len(transactions) |-> [transactions[1] EXCEPT !.item = name]]

\* allTransactions.map(t => ({...t, item: bestItemName}))
RECURSIVE Renamed(_, _)
Renamed(transactions, name) ==
  IF transactions = <<>> THEN <<>>
  ELSE <<[Head(transactions) EXCEPT !.item = name]>> \o Renamed(Tail(transactions), name)

\* The outer loop `for (const key1 of groupKeys)` from index k on
RECURSIVE MergeFrom(_, _, _, _)
MergeFrom(transactions, groupKeys, k, processed) ==
  IF k > Len(groupKeys) THEN <<>>
  ELSE IF groupKeys[k] \in processed
       THEN MergeFrom(transactions, groupKeys, k + 1, processed)
  ELSE LET key1 == groupKeys[k]
           Similar(key2) == key1 # key2 /\ key2 \notin processed /\ IsSimilar(key1, key2)
           similarKeys == SelectSeq(groupKeys, Similar)
           allTransactions == FlatGroups(transactions, <<key1>> \o similarKeys)
           bestItemName == chooseBestItemName(ItemsOf(allTransactions))
       IN Renamed(allTransactions, bestItemName)
          \o MergeFrom(transactions, groupKeys, k + 1,
                       processed \cup {key1} \cup {similarKeys[j] : j \in 1..Len(similarKeys)})

contextBasedCategorizing(transactions) ==
  MergeFrom(transactions, DistinctInOrder(KeysOf(transactions), {}), 1, {})

(***************************************************************************)
(* The Deduplicator: removeDuplicates.                                     *)
(***************************************************************************)
\* Math.floor(transaction.date.getTime() / (5 * 60 * 1000))
dateKey(date) == date \div MinutesPerWindow

\* `${sender}-${item}-${amount}-${dateKey}`, kept as the tuple of its parts
DedupKey(t) == <<t.sender, t.item, t.amount, dateKey(t.date)>>

RECURSIVE FilterSeen(_, _)
FilterSeen(transactions, seen) ==
  IF transactions = <<>> THEN <<>>
  ELSE IF DedupKey(Head(transactions)) \in seen THEN FilterSeen(Tail(transactions), seen)
  ELSE <<Head(transactions)>>
         \o FilterSeen(Tail(transactions), seen \cup {DedupKey(Head(transactions))})

removeDuplicates(transactions) == FilterSeen(transactions, {})

(***************************************************************************)
(* Bare date lines.                                                        *)
(***************************************************************************)
\* line.match(/^(\d{1,2})\s+([ঀ-৿]+)\s+(\d{4})/)
dateOnlyMatch(line) ==
  LET dEnd == RunEnd(line, 1, DigitChars)
      mBeg == RunEnd(line, dEnd, SpaceChars)
      mEnd == RunEnd(line, mBeg, BengaliChars)
      yBeg == RunEnd(line, mEnd, SpaceChars)
      yEnd == RunEnd(line, yBeg, DigitChars)
  IN IF /\ dEnd - 1 \in 1..2
        /\ mBeg > dEnd
        /\ mEnd > mBeg
        /\ yBeg > mEnd
        /\ yEnd - yBeg >= 4
     THEN [ok |-> TRUE, day |-> SubSeq(line, 1, dEnd - 1),
           month |-> SubSeq(line, mBeg, mEnd - 1), year |-> SubSeq(line, yBeg, yBeg + 3)]
     ELSE [ok |-> FALSE, day |-> "", month |-> "", year |-> ""]

\* bengaliMonths, by month index + 1
bengaliMonths ==
  <<"জানুয়ারি", "ফেব্রুয়ারি", "মার্চ", "এপ্রিল", "মে", "জুন",
    "জুলাই", "আগস্ট", "সেপ্টেম্বর", "অক্টোবর", "নভেম্বর", "ডিসেম্বর">>

parseDateFromComponents(day, month, year) ==
  LET dayNum == parseDigits(convertBengaliNumerals(day))
      yearNum == parseDigits(convertBengaliNumerals(year))
  IN IF \E k \in 1..12 : bengaliMonths[k] = month
     THEN NewDate(yearNum, (CHOOSE k \in 1..12 : bengaliMonths[k] = month) - 1, dayNum, 0, 0)
     ELSE NoDate

(***************************************************************************)
(* The getters and setters of Date that billingService.ts uses.            *)
(***************************************************************************)
MinutesPerDay == 1440

\* The civil date of day z since 1970-01-01: year, month (1..12) and day
CivilFromDays(z) ==
  LET s   == z + 719468
      era == s \div 146097
      doe == s - era * 146097
      yoe == (doe - doe \div 1460 + doe \div 36524 - doe \div 146096) \div 365
      doy == doe - (365 * yoe + yoe \div 4 - yoe \div 100)
      mp  == (5 * doy + 2) \div 153
      m   == IF mp < 10 THEN mp + 3 ELSE mp - 9
  IN [year  |-> yoe + era * 400 + (IF m <= 2 THEN 1 ELSE 0),
      month |-> m,
      day   |-> doy - (153 * mp + 2) \div 5 + 1]

getFullYear(date) == CivilFromDays(date \div MinutesPerDay).year

\* Date.prototype.getMonth: 0 for January
getMonth(date) == CivilFromDays(date \div MinutesPerDay).month - 1

getDate(date) == CivilFromDays(date \div MinutesPerDay).day

\* date.setFullYear(year): the same month, day and time of day in that year
setFullYear(date, year) ==
  NewDate(year, getMonth(date), getDate(date), 0, date % MinutesPerDay)

\* date.setMonth(monthIndex)
setMonth(date, monthIndex) ==
  NewDate(getFullYear(date), monthIndex, getDate(date), 0, date % MinutesPerDay)

(***************************************************************************)
(* The state.  The parser and the billing service share nothing: each      *)
(* specification below runs one of them and leaves the other idle.         *)
(*   content .. result: parseFile and the loop it calls; unread is what    *)
(*     validateAndExtractTransactions returned as suspicious, which the    *)
(*     loop never reads                                                    *)
(*   bpc .. iterations: generateMonthPeriods                               *)
(*   summary: what generateBillingSummary returned                         *)
(*   availableMonths, monthlyBills: what getAvailableMonths and            *)
(*     generateMonthlyBills make of the periods                            *)
(*   cpc .. billItems: combineItems                                        *)
(*   stored: TransactionManager.transactions; saved: what saveToStorage    *)
(*     last wrote to localStorage; generated: the number of ids            *)
(*     generateId has made; ticks: the minutes the manager has run;       *)
(*     outcome: how the last call of the manager ended                     *)
(***************************************************************************)
VARIABLES content, pc, processedLines, i, currentDate, currentSender, transactions,
          errors, unread, groupedTransactions, result

pvars == <<content, pc, processedLines, i, currentDate, currentSender, transactions,
           errors, unread, groupedTransactions, result>>

VARIABLES bpc, startDate, endDate, currentStart, periods, iterations,
          availableMonths, monthlyBills, summary

bvars == <<bpc, startDate, endDate, currentStart, periods, iterations,
           availableMonths, monthlyBills, summary>>

VARIABLES cpc, billed, ci, itemMap, billItems

cvars == <<cpc, billed, ci, itemMap, billItems>>

VARIABLES stored, saved, generated, ticks, outcome

mvars == <<stored, saved, generated, ticks, outcome>>

\* What a step of one operation leaves alone: the state of the others
besidesParser == <<bvars, cvars, mvars>>

besidesPeriods == <<pvars, cvars, mvars>>

besidesCombine == <<pvars, bvars, mvars>>

besidesManager == <<pvars, bvars, cvars>>

(***************************************************************************)
(* BillingService.generateMonthPeriods as a state machine.                 *)
(*   begin -> FirstStart  (the first currentStart, lines 115-125)          *)
(*   loop  -> NextPeriod  (one iteration of the while loop)                *)
(*            ReturnPeriods (the loop condition is false)                  *)
(*   returned                                                              *)
(* idle is the service with no call under way.                             *)
(***************************************************************************)
\* `const maxIterations = 1000`
maxIterations == 1000

\* The value of a result no call has made yet
NotCalled == [called |-> FALSE]

\* No call of generateMonthPeriods is under way
BillingIdle ==
  /\ bpc = "idle"
  /\ startDate = NoDate
  /\ endDate = NoDate
  /\ currentStart = NoDate
  /\ periods = <<>>
  /\ iterations = 0
  /\ availableMonths = NotCalled
  /\ monthlyBills = NotCalled
  /\ summary = NotCalled

\* Lines 115-125: the 15th of startDate's month, or of the month before
firstStart(start) ==
  LET sameMonth == NewDate(getFullYear(start), getMonth(start), 15, 0, 0)
      chosen == IF getDate(start) < 15
                THEN NewDate(getFullYear(start), getMonth(start) - 1, 15, 0, 0)
                ELSE sameMonth
  IN IF getMonth(chosen) < 0
     THEN NewDate(getFullYear(chosen) - 1, 11, 15, 0, 0)
     ELSE chosen

FirstStart ==
  /\ bpc = "begin"
  /\ currentStart' = firstStart(startDate)
  /\ bpc' = "loop"
  /\ UNCHANGED <<startDate, endDate, periods, iterations, availableMonths, monthlyBills,
                 summary>>
  /\ UNCHANGED besidesPeriods

\* Lines 133-138: the 14th of the month after from, with the year handling
\* of the `if` that follows
periodEndOf(from) ==
  LET currentEnd == NewDate(getFullYear(from), getMonth(from) + 1, 14, 0, 0)
  IN IF getMonth(currentEnd) < getMonth(from)
     THEN setFullYear(currentEnd, getFullYear(currentEnd) + 1)
     ELSE currentEnd

\* Lines 149-155: the 15th of the month after from
nextStart(from) ==
  LET next == NewDate(getFullYear(from), getMonth(from) + 1, 15, 0, 0)
  IN IF getMonth(next) > 11
     THEN setMonth(setFullYear(next, getFullYear(next) + 1), 0)
     ELSE next

NextPeriod ==
  /\ bpc = "loop"
  /\ currentStart <= endDate /\ iterations < maxIterations
  /\ LET currentEnd == periodEndOf(currentStart)
         periodEnd == IF currentEnd > endDate THEN endDate ELSE currentEnd
     IN periods' = Append(periods, [startDate |-> currentStart, endDate |-> periodEnd])
  /\ currentStart' = nextStart(currentStart)
  /\ iterations' = iterations + 1
  /\ UNCHANGED <<bpc, startDate, endDate, availableMonths, monthlyBills, summary>>
  /\ UNCHANGED besidesPeriods

ReturnPeriods ==
  /\ bpc = "loop"
  /\ ~(currentStart <= endDate /\ iterations < maxIterations)
  /\ bpc' = "returned"
  /\ UNCHANGED <<startDate, endDate, currentStart, periods, iterations,
                 availableMonths, monthlyBills, summary>>
  /\ UNCHANGED besidesPeriods

(***************************************************************************)
(* The two callers of generateMonthPeriods.  Both are given the same       *)
(* transactions, one dated startDate and one dated endDate, so that        *)
(* getAvailableMonths (earliest to latest date) and generateMonthlyBills   *)
(* (the period startDate to endDate) segment the same range.  A month      *)
(* name is kept as its month index.                                        *)
(***************************************************************************)
\* Lines 263-270: the label getAvailableMonths gives a period
availableMonth(period) ==
  LET cycleMonth == NewDate(getFullYear(period.startDate), getMonth(period.startDate) + 1,
                            1, 0, 0)
  IN [month |-> getMonth(cycleMonth), year |-> getFullYear(cycleMonth),
      startDate |-> period.startDate, endDate |-> period.endDate]

\* Lines 94-99: the label generateMonthlyBills gives a period
monthBill(monthPeriod) ==
  [month |-> getMonth(monthPeriod.endDate), year |-> getFullYear(monthPeriod.endDate),
   startDate |-> monthPeriod.startDate, endDate |-> monthPeriod.endDate]

\* monthTransactions.length > 0, the transactions being dated dates
hasTransactions(monthPeriod, dates) ==
  \E date \in dates : date >= monthPeriod.startDate /\ date <= monthPeriod.endDate

\* periods.map(...) of getAvailableMonths
availableMonthsOf(list) == [k \in 1..Len(list) |-> availableMonth(list[k])]

\* The periods with transactions, in order
withTransactions(list, dates) ==
  SelectSeq(list, LAMBDA monthPeriod : hasTransactions(monthPeriod, dates))

\* The loop of generateMonthlyBills: a bill for each period with transactions
monthlyBillsOf(list, dates) ==
  [k \in 1..Len(withTransactions(list, dates)) |->
     monthBill(withTransactions(list, dates)[k])]

\* getAvailableMonths, after its call of generateMonthPeriods returned
GetAvailableMonths ==
  /\ bpc = "returned"
  /\ availableMonths = NotCalled
  /\ availableMonths' = [called |-> TRUE, months |-> availableMonthsOf(periods)]
  /\ UNCHANGED <<bpc, startDate, endDate, currentStart, periods, iterations, monthlyBills,
                 summary>>
  /\ UNCHANGED besidesPeriods

\* generateMonthlyBills, after its call of generateMonthPeriods returned
GenerateMonthlyBills ==
  /\ bpc = "returned"
  /\ monthlyBills = NotCalled
  /\ monthlyBills' = [called |-> TRUE,
                      bills |-> monthlyBillsOf(periods, {startDate, endDate})]
  /\ UNCHANGED <<bpc, startDate, endDate, currentStart, periods, iterations,
                 availableMonths, summary>>
  /\ UNCHANGED besidesPeriods

(***************************************************************************)
(* generateBillingSummary(transactions, period), after the call of         *)
(* generateMonthPeriods that its generateMonthlyBills makes has returned.  *)
(* A transaction is its date and its amount in hundredths; the total of a  *)
(* bill is the sum of the totalPrice of its combined items, which is the   *)
(* sum of the amounts of its transactions.  The local time of the model    *)
(* is UTC, so that the date of toISOString is the local date.              *)
(***************************************************************************)
\* createMonthPeriod(year, month), the 59 seconds of its endDate left out
createMonthPeriod(year, month) ==
  [startDate |-> NewDate(year, month - 1, 15, 0, 0),
   endDate |-> NewDate(year, month, 14, 23, 59)]

\* `transaction.date.toISOString().split('T')[0]`, as the number of the day
dayKey(date) == date \div MinutesPerDay

\* The sum of the amounts of the transactions of list whose index is in counted
RECURSIVE totalOf(_, _, _)
totalOf(list, counted, k) ==
  IF k > Len(list) THEN 0
  ELSE (IF k \in counted THEN list[k].amount ELSE 0) + totalOf(list, counted, k + 1)

\* transactions.filter(t => t.date >= from && t.date <= to), as indices
within(list, from, to) ==
  {k \in 1..Len(list) : list[k].date >= from /\ list[k].date <= to}

\* generateDailyBills: a bill for each dateKey (here dayKey) of the counted
\* transactions
dailyBillsOf(list, counted) ==
  {[date |-> key,
    counted |-> {k \in counted : dayKey(list[k].date) = key},
    totalAmount |-> totalOf(list, {k \in counted : dayKey(list[k].date) = key}, 1)] :
     key \in {dayKey(list[k].date) : k \in counted}}

\* generateMonthlyBills before `if (monthTransactions.length === 0) continue`
monthlyBillsWith(list, counted, monthPeriods) ==
  [j \in 1..Len(monthPeriods) |->
     [startDate |-> monthPeriods[j].startDate,
      endDate |-> monthPeriods[j].endDate,
      counted |-> counted \cap within(list, monthPeriods[j].startDate,
                                      monthPeriods[j].endDate),
      totalAmount |-> totalOf(list,
                              counted \cap within(list, monthPeriods[j].startDate,
                                                  monthPeriods[j].endDate), 1)]]

\* What generateBillingSummary returns
billingSummary(list, filtered, monthPeriods) ==
  [called |-> TRUE,
   transactions |-> list,
   filtered |-> filtered,
   dailyBills |-> dailyBillsOf(list, filtered),
   monthlyBills |-> SelectSeq(monthlyBillsWith(list, filtered, monthPeriods),
                              LAMBDA bill : bill.counted # {}),
   grandTotal |-> totalOf(list, filtered, 1)]

\* The times of day of the transactions, in minutes
TimesOfDay == {0, 600, 1439}

\* The days between the day before from and the day after to that are the
\* 14th or 15th of a month, or the first or last day of the range, or the
\* day before or after it
SummaryDays(from, to) ==
  {day \in {MinutesPerDay * n : n \in (dayKey(from) - 1)..(dayKey(to) + 1)} :
     \/ getDate(day) \in {14, 15}
     \/ dayKey(day) \in {dayKey(from) - 1, dayKey(from), dayKey(to), dayKey(to) + 1}}

\* The transactions a summary is asked of: one at the start of the period
\* and one at a time of one of these days
SummaryTransactions ==
  {<<[date |-> startDate, amount |-> 10000], [date |-> day + time, amount |-> 5000]>> :
     day \in SummaryDays(startDate, endDate), time \in TimesOfDay}

GenerateBillingSummary ==
  /\ bpc = "returned"
  /\ summary = NotCalled
  /\ \E list \in SummaryTransactions :
       summary' = billingSummary(list, within(list, startDate, endDate), periods)
  /\ UNCHANGED <<bpc, startDate, endDate, currentStart, periods, iterations,
                 availableMonths, monthlyBills>>
  /\ UNCHANGED besidesPeriods

(***************************************************************************)
(* BillingService.combineItems as a state machine.  Amounts and prices are *)
(* counted in hundredths of the currency unit, so that a price rounded to  *)
(* 2 decimal places is a whole number.                                     *)
(*   loop -> CombineStep  (one call of the forEach callback)               *)
(*           ReturnItems  (the conversion to BillItem[], and the sort)     *)
(*   returned                                                              *)
(***************************************************************************)
\* No call of combineItems is under way
CombineIdle ==
  /\ cpc = "idle"
  /\ billed = <<>>
  /\ ci = 1
  /\ itemMap = <<>>
  /\ billItems = <<>>

\* A grouping that takes the item names as they are written
itemAsWritten(transaction) == transaction.item

\* `transaction.item.toLowerCase().trim()`
itemKeyOf(transaction) == Trim(toLowerCase(transaction.item))

\* itemMap.has(itemKey): the place of the key among the entries, 0 if absent
entryOf(map, itemKey) ==
  IF \E k \in 1..Len(map) : map[k].item = itemKey
  THEN CHOOSE k \in 1..Len(map) : map[k].item = itemKey
  ELSE 0

\* The two branches of the callback: at is the place of itemKey in the map
addEntry(map, transaction, itemKey, at) ==
  IF at > 0
  THEN [map EXCEPT ![at] =
         [item |-> itemKey,
          quantity |-> map[at].quantity + 1,
          totalPrice |-> map[at].totalPrice + transaction.amount,
          unitPrice |-> <<map[at].totalPrice + transaction.amount, map[at].quantity + 1>>]]
  ELSE Append(map, [item |-> itemKey, quantity |-> 1, totalPrice |-> transaction.amount,
                    unitPrice |-> <<transaction.amount, 1>>])

\* The callback of transactions.forEach on one transaction.  unitPrice, the
\* quotient totalPrice / quantity, is kept as its two terms.
addToMap(map, transaction) ==
  LET itemKey == itemKeyOf(transaction)
  IN addEntry(map, transaction, itemKey, entryOf(map, itemKey))

\* Math.round(x * 100) / 100 of the quotient num / den of two hundredths:
\* the nearest hundredth, a half going up
roundedQuotient(num, den) == (2 * num + den) \div (2 * den)

\* The loop over itemMap.entries() from entry k on
RECURSIVE toBillItems(_, _)
toBillItems(map, k) ==
  IF k > Len(map) THEN <<>>
  ELSE <<[item |-> map[k].item,
          quantity |-> map[k].quantity,
          unitPrice |-> roundedQuotient(map[k].unitPrice[1], map[k].unitPrice[2]),
          totalPrice |-> map[k].totalPrice]>>
       \o toBillItems(map, k + 1)

\* The place a stable sort by `b.totalPrice - a.totalPrice` gives item among
\* the sorted items before it: behind every item whose total is not smaller
insertByTotal(sorted, item) ==
  LET n == Cardinality({k \in 1..Len(sorted) : sorted[k].totalPrice >= item.totalPrice})
  IN SubSeq(sorted, 1, n) \o <<item>> \o SubSeq(sorted, n + 1, Len(sorted))

\* billItems.sort((a, b) => b.totalPrice - a.totalPrice)
RECURSIVE sortByTotal(_, _)
sortByTotal(items, sorted) ==
  IF items = <<>> THEN sorted
  ELSE sortByTotal(Tail(items), insertByTotal(sorted, Head(items)))

CombineStep ==
  /\ cpc = "loop"
  /\ ci <= Len(billed)
  /\ itemMap' = addToMap(itemMap, billed[ci])
  /\ ci' = ci + 1
  /\ UNCHANGED <<cpc, billed, billItems>>
  /\ UNCHANGED besidesCombine

ReturnItems ==
  /\ cpc = "loop"
  /\ ci > Len(billed)
  /\ billItems' = sortByTotal(toBillItems(itemMap, 1), <<>>)
  /\ cpc' = "returned"
  /\ UNCHANGED <<billed, ci, itemMap>>
  /\ UNCHANGED besidesCombine

(***************************************************************************)
(* TransactionManager: the store of transactions and its operations.  One  *)
(* action is one call, from its entry to the fulfilment or the rejection   *)
(* of its promise.  outcome holds, beside the result of the call, the      *)
(* array a call of addTransactions was given and the events the call       *)
(* handed to notifyListeners; localStorage.setItem may throw in any call   *)
(* (the quota is exceeded).                                                *)
(***************************************************************************)
\* The outcome of a manager on which nothing was called yet
NoCall ==
  [op |-> "none", threw |-> FALSE, message |-> "", imported |-> 0, errors |-> <<>>,
   given |-> <<>>, notified |-> <<>>]

\* The manager as its constructor leaves it when localStorage holds no data
ManagerIdle ==
  /\ stored = <<>>
  /\ saved = <<>>
  /\ generated = 0
  /\ ticks = 0
  /\ outcome = NoCall

\* generateId(): a time stamp and a random suffix; n counts the ids made
generateId(n) == ToString(n) \o "-r"

\* The characters of the sender pattern /^[a-zA-Z\sঀ-৿]+$/
MatchesSenderPattern(value) ==
  /\ value # ""
  /\ \A k \in 1..Len(value) : IsLetter(Char(value, k)) \/ IsSpace(Char(value, k))

\* transactionSchema.date
validDate(value, now) ==
  /\ value # NoDate
  /\ value >= NewDate(getFullYear(now) - 1, getMonth(now), getDate(now), 0, 0)
  /\ value <= NewDate(getFullYear(now) + 1, getMonth(now), getDate(now), 0, 0)

\* transactionSchema.sender
validSender(value) ==
  /\ value # ""
  /\ Len(value) <= 100
  /\ MatchesSenderPattern(value)
  /\ Trim(value) # ""

\* transactionSchema.item
validItem(value) == value # "" /\ Len(value) <= 200 /\ Trim(value) # ""

\* transactionSchema.amount, amounts being whole numbers
validAmount(value) == value >= 1 /\ value <= 999999

\* validateTransaction(transaction).isValid
validateTransaction(transaction, now) ==
  /\ validDate(transaction.date, now)
  /\ validSender(transaction.sender)
  /\ validItem(transaction.item)
  /\ validAmount(transaction.amount)

Min3(a, b, c) == IF a <= b THEN (IF a <= c THEN a ELSE c) ELSE (IF b <= c THEN b ELSE c)

\* Row j of the matrix of levenshteinDistance, from row j - 1 and str2[j - 1];
\* row[k + 1] is matrix[j][k]
RECURSIVE matrixRow(_, _, _, _)
matrixRow(prev, str1, c, row) ==
  IF Len(row) > Len(str1) THEN row
  ELSE matrixRow(prev, str1, c,
         Append(row, Min3(row[Len(row)] + 1,
                          prev[Len(row) + 1] + 1,
                          prev[Len(row)] + (IF Char(str1, Len(row)) = c THEN 0 ELSE 1))))

RECURSIVE lastRow(_, _, _, _)
lastRow(prev, str1, str2, j) ==
  IF j > Len(str2) THEN prev
  ELSE lastRow(matrixRow(prev, str1, Char(str2, j), <<j>>), str1, str2, j + 1)

levenshteinDistance(str1, str2) ==
  lastRow([k \in 1..(Len(str1) + 1) |-> k - 1], str1, str2, 1)[Len(str1) + 1]

\* normalizeMsg of isDuplicateTransaction
normalizeMsg(msg) == Trim(CollapseSpaces(toLowerCase(msg)))

Longer(a, b) == IF Len(a) >= Len(b) THEN Len(a) ELSE Len(b)

\* distance / maxLength < 0.1 (0 / 0 is NaN, and NaN < 0.1 is false)
verySimilar(normalizedExisting, normalizedNew) ==
  10 * levenshteinDistance(normalizedExisting, normalizedNew)
    < Longer(normalizedExisting, normalizedNew)

\* A check that knows the strict rule of five minutes only
isDuplicateStrict(existing, newTransaction) ==
  /\ existing.sender = newTransaction.sender
  /\ existing.item = newTransaction.item
  /\ existing.amount = newTransaction.amount
  /\ Abs(existing.date - newTransaction.date) < 5

\* isDuplicateTransaction(existing, newTransaction), dates in minutes
isDuplicateTransaction(existing, newTransaction) ==
  LET timeDiff == Abs(existing.date - newTransaction.date)
      sameBasicInfo == /\ existing.sender = newTransaction.sender
                       /\ existing.item = newTransaction.item
                       /\ existing.amount = newTransaction.amount
  IN /\ sameBasicInfo
     /\ \/ timeDiff < 5
        \/ /\ timeDiff < MinutesPerDay
           /\ \/ /\ existing.originalMessage # ""
                 /\ newTransaction.originalMessage # ""
                 /\ verySimilar(normalizeMsg(existing.originalMessage),
                                normalizeMsg(newTransaction.originalMessage))
              \/ timeDiff < 30

\* JSON.stringify of a Date and `new Date` of the string it gives
toISO(date) == [iso |-> date]

fromISO(value) == value.iso

\* JSON.stringify(this.transactions)
stringify(list) ==
  [k \in 1..Len(list) |->
     [list[k] EXCEPT !.date = toISO(@), !.createdAt = toISO(@), !.updatedAt = toISO(@)]]

\* The loop of addTransactions (lines 24-41): the transactions that are valid
\* and no duplicate of an existing one, with their ids and time stamps; n
\* counts the ids generated
\* A loop that does not look for duplicates among the existing transactions
RECURSIVE validTransactionsUnchecked(_, _, _, _, _, _)
validTransactionsUnchecked(newTransactions, k, existing, now, n, valid) ==
  IF k > Len(newTransactions) THEN [valid |-> valid, generated |-> n]
  ELSE IF validateTransaction(newTransactions[k], now)
       THEN validTransactionsUnchecked(newTransactions, k + 1, existing, now, n + 1,
              Append(valid, [newTransactions[k] EXCEPT
                               !.id = IF @ = "" THEN generateId(n + 1) ELSE @,
                               !.createdAt = IF @ = NoDate THEN now ELSE @,
                               !.updatedAt = now]))
       ELSE validTransactionsUnchecked(newTransactions, k + 1, existing, now, n, valid)

RECURSIVE validTransactionsOf(_, _, _, _, _, _)
validTransactionsOf(newTransactions, k, existing, now, n, valid) ==
  IF k > Len(newTransactions) THEN [valid |-> valid, generated |-> n]
  ELSE IF /\ validateTransaction(newTransactions[k], now)
          /\ ~\E e \in 1..Len(existing) :
                isDuplicateTransaction(existing[e], newTransactions[k])
       THEN IF newTransactions[k].id = ""
            THEN validTransactionsOf(newTransactions, k + 1, existing, now, n + 1,
                   Append(valid, [newTransactions[k] EXCEPT
                                    !.id = generateId(n + 1),
                                    !.createdAt = IF @ = NoDate THEN now ELSE @,
                                    !.updatedAt = now]))
            ELSE validTransactionsOf(newTransactions, k + 1, existing, now, n,
                   Append(valid, [newTransactions[k] EXCEPT
                                    !.createdAt = IF @ = NoDate THEN now ELSE @,
                                    !.updatedAt = now]))
       ELSE validTransactionsOf(newTransactions, k + 1, existing, now, n, valid)

\* The loop of importFromJSON (lines 292-314): the rows made transactions,
\* the valid ones kept and the others reported by their row number
RECURSIVE rowsOf(_, _, _, _, _, _)
rowsOf(data, k, now, n, valid, errs) ==
  IF k > Len(data) THEN [valid |-> valid, errors |-> errs, generated |-> n]
  ELSE LET item == data[k]
           made == IF item.id = "" THEN n + 1 ELSE n
           transaction ==
             [id |-> IF item.id = "" THEN generateId(n + 1) ELSE item.id,
              date |-> fromISO(item.date),
              sender |-> item.sender,
              item |-> item.item,
              amount |-> item.amount,
              originalMessage |-> item.originalMessage,
              createdAt |-> IF fromISO(item.createdAt) = NoDate
                            THEN now ELSE fromISO(item.createdAt),
              updatedAt |-> IF fromISO(item.updatedAt) = NoDate
                            THEN now ELSE fromISO(item.updatedAt)]
       IN IF validateTransaction(transaction, now)
          THEN rowsOf(data, k + 1, now, made, Append(valid, transaction), errs)
          ELSE rowsOf(data, k + 1, now, made, valid, Append(errs, k))

\* this.transactions.findIndex(t => t.id === id), 0 for -1
findIndex(list, id) ==
  IF \E k \in 1..Len(list) : list[k].id = id
  THEN CHOOSE k \in 1..Len(list) :
         list[k].id = id /\ \A j \in 1..(k - 1) : list[j].id # id
  ELSE 0

\* this.transactions.splice(index, 1)
splice(list, index) == SubSeq(list, 1, index - 1) \o SubSeq(list, index + 1, Len(list))

\* The loop of deleteMultipleTransactions (lines 103-109)
RECURSIVE deleteEach(_, _, _)
deleteEach(list, ids, k) ==
  IF k > Len(ids) THEN list
  ELSE IF findIndex(list, ids[k]) = 0 THEN deleteEach(list, ids, k + 1)
       ELSE deleteEach(splice(list, findIndex(list, ids[k])), ids, k + 1)

\* { ...this.transactions[index], ...updates, updatedAt: new Date() }
merged(transaction, updates, now) == [updatedAt |-> now] @@ updates @@ transaction

\* The year of the dates the operations are given
StartYear == 2024

\* The day the manager runs, and the time of the next call
Today == NewDate(StartYear, 5, 15, 12, 0)

Now == Today + ticks

\* A transaction as a caller hands it over, createdAt and updatedAt not set
Purchase(id, item, amount, date, originalMessage) ==
  [id |-> id, date |-> date, sender |-> "Monir", item |-> item, amount |-> amount,
   originalMessage |-> originalMessage, createdAt |-> NoDate, updatedAt |-> NoDate]

\* The transactions callers add and import: two that carry the same id, three
\* without an id that repeat the first one ten minutes and an hour later,
\* without a message, with nearly the same and with another message, and one
\* whose amount is not valid
NewTransactions ==
  <<Purchase("a", "milk", 100, Today, "milk 100"),
    Purchase("a", "bread", 50, Today, "bread 50"),
    Purchase("", "milk", 100, Today + 10, ""),
    Purchase("", "milk", 100, Today + 60, "Milk  100"),
    Purchase("", "milk", 100, Today + 10, "milk 100 taka"),
    Purchase("b", "milk", 0, Today, "milk 0")>>

\* The arrays of at most two of them, in this order
Batches ==
  {<<>>}
    \cup {<<NewTransactions[j]>> : j \in 1..Len(NewTransactions)}
    \cup UNION {{<<NewTransactions[j], NewTransactions[k]>> :
                   k \in (j + 1)..Len(NewTransactions)} :
                 j \in 1..Len(NewTransactions)}

\* The ids callers name
NamedIds == {"a", "b", generateId(1)}

\* The changes callers ask of updateTransaction
Updates == {[item |-> "rice"], [amount |-> 0], [id |-> "b"]}

\* The most transactions the store grows to, and the most calls made
MaxStored == 3

MaxCalls == 2

Running == ticks < MaxCalls

\* The events notifyListeners is called with, one for each transaction of list
eventsOf(type, list) == [k \in 1..Len(list) |-> [type |-> type, id |-> list[k].id]]

\* The promise of the call is fulfilled
returns(op, given, notified) ==
  [op |-> op, threw |-> FALSE, message |-> "", imported |-> 0, errors |-> <<>>,
   given |-> given, notified |-> notified]

\* The promise of the call is rejected with an Error of this message
throws(op, given, message) ==
  [op |-> op, threw |-> TRUE, message |-> message, imported |-> 0, errors |-> <<>>,
   given |-> given, notified |-> <<>>]

\* `await this.saveToStorage()` and what follows it: the list is written and
\* the call ends as done, or setItem throws and the call ends as failed
saveToStorage(done, failed) ==
  \/ /\ saved' = stringify(stored')
     /\ outcome' = done
  \/ /\ UNCHANGED saved
     /\ outcome' = failed

\* addTransactions(newTransactions); added is what its loop returns
addTransactions(added, done, failed) ==
  /\ Len(stored) + Len(added.valid) <= MaxStored
  /\ stored' = stored \o added.valid
  /\ generated' = added.generated
  /\ ticks' = ticks + 1
  /\ saveToStorage(done, failed)
  /\ UNCHANGED besidesManager

added(newTransactions, valid) ==
  addTransactions(valid,
                  returns("add", newTransactions, eventsOf("create", valid.valid)),
                  throws("add", newTransactions, "Failed to save data locally"))

AddTransactions ==
  /\ Running
  /\ \E newTransactions \in Batches :
       added(newTransactions,
             validTransactionsOf(newTransactions, 1, stored, Now, generated, <<>>))

\* importFromJSON(jsonData) for the text of an array of rows: the call of
\* addTransactions(validTransactions) and the return, or the catch clause
importedRows(rows, valid) ==
  addTransactions(valid,
                  [op |-> "import", threw |-> FALSE, message |-> "",
                   imported |-> Len(rows.valid), errors |-> rows.errors,
                   given |-> rows.valid, notified |-> eventsOf("create", valid.valid)],
                  throws("import", rows.valid, "Failed to import JSON"))

imported(rows) ==
  importedRows(rows,
               validTransactionsOf(rows.valid, 1, stored, Now, rows.generated, <<>>))

ImportFromJSON ==
  /\ Running
  /\ \E newTransactions \in Batches :
       imported(rowsOf(stringify(newTransactions), 1, Now, generated, <<>>, <<>>))

\* importFromJSON(jsonData) for a text that is not JSON, or no array
ImportRejected ==
  /\ Running
  /\ outcome' = throws("import", <<>>, "Failed to import JSON")
  /\ ticks' = ticks + 1
  /\ UNCHANGED <<stored, saved, generated>>
  /\ UNCHANGED besidesManager

\* updateTransaction(id, updates) with the index and the record it computes
updated(index, updatedTransaction) ==
  IF index = 0
  THEN /\ outcome' = throws("update", <<>>, "Transaction not found")
       /\ UNCHANGED <<stored, saved>>
  ELSE IF ~validateTransaction(updatedTransaction, Now)
  THEN /\ outcome' = throws("update", <<>>, "Validation failed")
       /\ UNCHANGED <<stored, saved>>
  ELSE /\ stored' = [stored EXCEPT ![index] = updatedTransaction]
       /\ saveToStorage(returns("update", <<>>, eventsOf("update", <<updatedTransaction>>)),
                        throws("update", <<>>, "Failed to save data locally"))

UpdateTransaction ==
  /\ Running
  /\ \E id \in NamedIds, updates \in Updates :
       updated(findIndex(stored, id),
               IF findIndex(stored, id) = 0 THEN updates
               ELSE merged(stored[findIndex(stored, id)], updates, Now))
  /\ ticks' = ticks + 1
  /\ UNCHANGED generated
  /\ UNCHANGED besidesManager

\* deleteTransaction(id)
deleted(index) ==
  IF index = 0
  THEN /\ outcome' = throws("delete", <<>>, "Transaction not found")
       /\ UNCHANGED <<stored, saved>>
  ELSE /\ stored' = splice(stored, index)
       /\ saveToStorage(returns("delete", <<>>, eventsOf("delete", <<stored[index]>>)),
                        throws("delete", <<>>, "Failed to save data locally"))

DeleteTransaction ==
  /\ Running
  /\ \E id \in NamedIds : deleted(findIndex(stored, id))
  /\ ticks' = ticks + 1
  /\ UNCHANGED generated
  /\ UNCHANGED besidesManager

\* The transactions deleteMultipleTransactions removes, in the order of ids
RECURSIVE deletedEach(_, _, _)
deletedEach(list, ids, k) ==
  IF k > Len(ids) THEN <<>>
  ELSE IF findIndex(list, ids[k]) = 0 THEN deletedEach(list, ids, k + 1)
       ELSE <<list[findIndex(list, ids[k])]>>
            \o deletedEach(splice(list, findIndex(list, ids[k])), ids, k + 1)

\* deleteMultipleTransactions(ids)
DeleteMultipleTransactions ==
  /\ Running
  /\ \E ids \in UNION {[1..n -> NamedIds] : n \in 0..2} :
       /\ stored' = deleteEach(stored, ids, 1)
       /\ saveToStorage(returns("deleteMultiple", <<>>,
                                eventsOf("delete", deletedEach(stored, ids, 1))),
                        throws("deleteMultiple", <<>>, "Failed to save data locally"))
  /\ ticks' = ticks + 1
  /\ UNCHANGED generated
  /\ UNCHANGED besidesManager

\* clearAllTransactions()
ClearAllTransactions ==
  /\ Running
  /\ stored' = <<>>
  /\ saveToStorage(returns("clear", <<>>, eventsOf("delete", stored)),
                   throws("clear", <<>>, "Failed to save data locally"))
  /\ ticks' = ticks + 1
  /\ UNCHANGED generated
  /\ UNCHANGED besidesManager

(***************************************************************************)
(* parseFile as a state machine.                                           *)
(*   start   -> PreParse     (Step 1: strip, trim, drop blank lines)       *)
(*   parsing -> ProcessLine  (one iteration of the loop of                 *)
(*                            enhancedContextBasedParsing), and, the loop  *)
(*                            over, Categorize (Step 3)                    *)
(*   dedup   -> Finish       (Step 4, the summary and the return)          *)
(*   done                    (the promise of parseFile is fulfilled)       *)
(* pc = "failed" is the call rejecting with an exception.                  *)
(***************************************************************************)
\* The configured target sender: `currentSender.toLowerCase() === 'monir'`
TargetSender == "monir"

\* The raw lines the inputs are made of: headers of the target sender (in
\* capitals) and of another sender, continuation lines with and without a
\* pair, a line carrying the prefix Step 1 strips, a blank line, and a line
\* whose word is refused as an item
InputLines ==
  {"03/01/2024, 9:35 pm - MONIR: alo 140",
   "chapati 110",
   "milk 100",
   "বিবরণ dim 45",
   "05/01/2024, 7:55 pm - Munia Mustari: lux 60",
   "hello there",
   "",
   "monir 100"}

\* Lines that differ in how the amount is written and in its size
AmountLines ==
  {"03/01/2024, 9:35 pm - Monir: milk 100",
   "কেনা 0",
   "কেনা 1500",
   "bread50",
   "bread1500",
   "rice 2000",
   "milk 0"}

\* The same purchase at several times of day and on another day
RepeatLines ==
  {"03/01/2024, 9:34 pm - Monir: milk 100",
   "03/01/2024, 9:35 pm - Monir: milk 100",
   "03/01/2024, 9:36 pm - Monir: milk 100",
   "03/01/2024, 9:37 pm - Monir: milk 100",
   "05/01/2024, 9:36 pm - Monir: milk 100",
   "milk 100"}

MaxLines == 3

\* content.split('\n') of the inputs: every sequence of 1..MaxLines raw lines
Inputs(lines) == UNION {[1..n -> lines] : n \in 1..MaxLines}

\* The values `new Date()` may take where the loop falls back on it
Clock == {NewDate(2026, 0, 1, 0, 0), NewDate(2026, 0, 1, 0, 7)}

NoResult == [returned |-> FALSE]

\* No call of parseFile is under way
ParserIdle ==
  /\ content = <<>>
  /\ pc = "idle"
  /\ processedLines = <<>>
  /\ i = 1
  /\ currentDate = NoDate
  /\ currentSender = ""
  /\ transactions = <<>>
  /\ errors = <<>>
  /\ unread = <<>>
  /\ groupedTransactions = <<>>
  /\ result = NoResult

\* parseFile(content) is called
Called(lines) ==
  /\ BillingIdle
  /\ CombineIdle
  /\ ManagerIdle
  /\ content \in Inputs(lines)
  /\ pc = "start"
  /\ processedLines = <<>>
  /\ i = 1
  /\ currentDate = NoDate
  /\ currentSender = ""
  /\ transactions = <<>>
  /\ errors = <<>>
  /\ unread = <<>>
  /\ groupedTransactions = <<>>
  /\ result = NoResult

Init == Called(InputLines)

\* Step 1 of parseFile: the loop that fills processedLines
RECURSIVE preParse(_)
preParse(lines) ==
  IF lines = <<>> THEN <<>>
  ELSE LET line == Trim(StripBiboron(Head(lines)))
       IN (IF line # "" THEN <<line>> ELSE <<>>) \o preParse(Tail(lines))

PreParse ==
  /\ pc = "start"
  /\ processedLines' = preParse(content)
  /\ pc' = "parsing"
  /\ UNCHANGED <<content, i, currentDate, currentSender, transactions, errors, unread,
                 groupedTransactions, result>>
  /\ UNCHANGED besidesParser

\* A loop whose catch clause throws the error on
Rethrow(errs, lineNumber, line) == [propagate |-> TRUE, errors |-> errs]

\* The catch clause of the loop: the error is recorded under the loop's line
\* number and the loop goes on
OnLineError(errs, lineNumber, line) ==
  [propagate |-> FALSE,
   errors |-> Append(errs, [line |-> lineNumber, message |-> "item is not defined",
                            originalText |-> line])]

\* A loop that takes the lines of every sender
AnySender(sender) == TRUE

\* `currentSender.toLowerCase() === 'monir'`, `useSender.toLowerCase() === 'monir'`
IsTargetSender(sender) == toLowerCase(sender) = TargetSender

none == [threw |-> FALSE, transactions |-> <<>>, suspicious |-> <<>>]

\* Lines 106-133: the line is a message header with the groups messageMatch
headerStep(messageMatch, n) ==
  LET newDate == parseDate(messageMatch.day, messageMatch.month, messageMatch.year,
                           messageMatch.hours, messageMatch.minutes, messageMatch.ampm)
      newSender == normalizeSenderName(messageMatch.sender)
  IN [date |-> newDate, sender |-> newSender,
      out |-> IF newDate # NoDate /\ IsTargetSender(newSender)
              THEN validateAndExtractTransactions(messageMatch.message, newSender,
                                                  newDate, n)
              ELSE none]

\* A loop that takes a line met before any header as the target sender's
senderOrTarget(sender) == IF sender # "" THEN sender ELSE TargetSender

\* `currentSender || 'unknown'`
senderOrUnknown(sender) == IF sender # "" THEN sender ELSE "unknown"

\* Lines 134-169: the line is no header; dateOnly is its match as a bare date
continuationStep(line, dateOnly, n, date, sender, now) ==
  IF dateOnly.ok
  THEN LET parsedDate == parseDateFromComponents(dateOnly.day, dateOnly.month,
                                                 dateOnly.year)
       IN [date |-> IF parsedDate # NoDate THEN parsedDate ELSE date,
           sender |-> sender, out |-> none]
  ELSE LET useSender == senderOrUnknown(sender)
           useDate == IF date # NoDate THEN date ELSE now
       IN [date |-> date, sender |-> sender,
           out |-> IF IsTargetSender(useSender)
                   THEN validateAndExtractTransactions(line, useSender, useDate, n)
                   ELSE none]

messageStep(line, messageMatch, n, date, sender, now) ==
  IF messageMatch.ok
  THEN headerStep(messageMatch, n)
  ELSE continuationStep(line, dateOnlyMatch(line), n, date, sender, now)

\* The context and the extraction of one loop iteration on `line` (number n):
\* the carried date and sender after it, and what the extraction returned
LineStep(line, n, date, sender, now) ==
  messageStep(line, messagePattern(line), n, date, sender, now)

\* `new Date()` is evaluated only by a non-header line met without a date
NeedsClock(line) == currentDate = NoDate /\ ~messagePattern(line).ok

ProcessLine ==
  /\ pc = "parsing"
  /\ i <= Len(processedLines)
  /\ LET line == Trim(processedLines[i])
     IN \E now \in (IF NeedsClock(line) THEN Clock ELSE {NoDate}) :
          LET step == LineStep(line, i, currentDate, currentSender, now)
              caught == OnLineError(errors, i, line)
          IN /\ currentDate' = step.date
             /\ currentSender' = step.sender
             /\ transactions' = transactions \o step.out.transactions
             /\ unread' = unread \o step.out.suspicious
             /\ errors' = IF step.out.threw THEN caught.errors ELSE errors
             /\ pc' = IF step.out.threw /\ caught.propagate THEN "failed" ELSE pc
  /\ i' = i + 1
  /\ UNCHANGED <<content, processedLines, groupedTransactions, result>>
  /\ UNCHANGED besidesParser

Categorize ==
  /\ pc = "parsing"
  /\ i > Len(processedLines)
  /\ groupedTransactions' = contextBasedCategorizing(transactions)
  /\ pc' = "dedup"
  /\ UNCHANGED <<content, processedLines, i, currentDate, currentSender, transactions,
                 errors, unread, result>>
  /\ UNCHANGED besidesParser

\* The value parseFile returns; its suspiciousTransactions is the local array
\* of parseFile, which nothing is ever pushed to
ParseResult(lines, errs, grouped) ==
  LET uniqueTransactions == removeDuplicates(grouped)
  IN [returned |-> TRUE,
      transactions |-> uniqueTransactions,
      errors |-> errs,
      summary |-> [totalLines |-> Len(lines),
                   successfulTransactions |-> Len(uniqueTransactions),
                   failedLines |-> Len(errs),
                   duplicatesSkipped |-> Len(grouped) - Len(uniqueTransactions)],
      suspiciousTransactions |-> <<>>]

Finish ==
  /\ pc = "dedup"
  /\ result' = ParseResult(content, errors, groupedTransactions)
  /\ pc' = "done"
  /\ UNCHANGED <<content, processedLines, i, currentDate, currentSender, transactions,
                 errors, unread, groupedTransactions>>
  /\ UNCHANGED besidesParser

Next == PreParse \/ ProcessLine \/ Categorize \/ Finish

vars == <<pvars, bvars, cvars, mvars>>

Spec == Init /\ [][Next]_vars

\* parseFile on inputs that vary the amounts
InitAmounts == Called(AmountLines)

SpecAmounts == InitAmounts /\ [][Next]_vars

\* parseFile on inputs that repeat a purchase
InitRepeats == Called(RepeatLines)

SpecRepeats == InitRepeats /\ [][Next]_vars

\* parseFile on inputs that write an item and its amount as one token or two
TokenLines ==
  {"03/01/2024, 9:35 pm - Monir: tel173",
   "03/01/2024, 9:35 pm - Monir: tel 173",
   "rc40",
   "rc 40",
   "bread50",
   "bread 50"}

InitTokens == Called(TokenLines)

SpecTokens == InitTokens /\ [][Next]_vars

\* parseFile on inputs that write a purchase in the four documented patterns
PatternLines ==
  {"03/01/2024, 9:35 pm - Monir: milk: 100",
   "03/01/2024, 9:35 pm - Monir: milk 100",
   "bread - 50",
   "bread 50",
   "100 for rice"}

InitPatterns == Called(PatternLines)

SpecPatterns == InitPatterns /\ [][Next]_vars

\* parseFile on chats in which dates stand on lines of their own, written with
\* Western and with Bengali numerals
DateLines ==
  {"03/01/2024, 9:35 pm - Monir: milk 100",
   "05/01/2024, 7:55 pm - Munia Mustari: lux 60",
   "4 আগস্ট 2025",
   "৪ আগস্ট ২০২৫",
   "bread 50"}

InitDates == Called(DateLines)

SpecDates == InitDates /\ [][Next]_vars

\* parseFile on lines that hold a pair the filters reject beside valid pairs
RejectLines ==
  {"03/01/2024, 9:35 pm - Monir: milk 100 rice 2000",
   "monir 100 bread 50",
   "rice 0 milk 100",
   "bread 50"}

InitRejects == Called(RejectLines)

SpecRejects == InitRejects /\ [][Next]_vars

\* parseFile on purchases whose item names share letters: bread and rice are
\* similar, rice and ice are similar, bread and ice are not, milk is similar
\* to none of them
GroupLines ==
  {"03/01/2024, 9:35 pm - Monir: bread 50",
   "03/01/2024, 9:35 pm - Monir: bread 50 rice 50",
   "rice 50",
   "ice 50",
   "milk 60"}

InitGroups == Called(GroupLines)

SpecGroups == InitGroups /\ [][Next]_vars

(***************************************************************************)
(* generateMonthPeriods(startDate, endDate) on the dates of a year: every  *)
(* start on one of StartDays of a month of StartYear, every end on one of  *)
(* EndDays of that month or of one of the MaxSpan months that follow,      *)
(* both at 00:00 as in the tests, start <= end.                            *)
(***************************************************************************)
StartDays == {1, 14, 15, 20}

EndDays == {1, 14, 15, 31}

MaxSpan == 3

InitBilling ==
  /\ ParserIdle
  /\ CombineIdle
  /\ ManagerIdle
  /\ bpc = "begin"
  /\ \E m \in 0..11, d \in StartDays : startDate = NewDate(StartYear, m, d, 0, 0)
  /\ \E s \in 0..MaxSpan, e \in EndDays :
       endDate = NewDate(getFullYear(startDate), getMonth(startDate) + s, e, 0, 0)
  /\ startDate <= endDate
  /\ currentStart = NoDate
  /\ periods = <<>>
  /\ iterations = 0
  /\ availableMonths = NotCalled
  /\ monthlyBills = NotCalled
  /\ summary = NotCalled

NextBilling ==
  FirstStart \/ NextPeriod \/ ReturnPeriods \/ GetAvailableMonths \/ GenerateMonthlyBills

SpecBilling == InitBilling /\ [][NextBilling]_vars

(***************************************************************************)
(* generateBillingSummary on the period createMonthPeriod makes of a month *)
(* of StartYear, and on custom periods that end at the last minute of a    *)
(* day.                                                                    *)
(***************************************************************************)
InitSummary ==
  /\ ParserIdle
  /\ CombineIdle
  /\ ManagerIdle
  /\ bpc = "begin"
  /\ \/ \E m \in 0..11 :
          /\ startDate = createMonthPeriod(StartYear, m).startDate
          /\ endDate = createMonthPeriod(StartYear, m).endDate
     \/ /\ \E m \in {0, 10}, d \in StartDays : startDate = NewDate(StartYear, m, d, 0, 0)
        /\ \E s \in 0..MaxSpan, e \in EndDays :
             endDate = NewDate(getFullYear(startDate), getMonth(startDate) + s, e, 23, 59)
        /\ startDate <= endDate
  /\ currentStart = NoDate
  /\ periods = <<>>
  /\ iterations = 0
  /\ availableMonths = NotCalled
  /\ monthlyBills = NotCalled
  /\ summary = NotCalled

NextSummary == FirstStart \/ NextPeriod \/ ReturnPeriods \/ GenerateBillingSummary

SpecSummary == InitSummary /\ [][NextSummary]_vars

(***************************************************************************)
(* generateMonthPeriods on a range of more months than the loop may take   *)
(* iterations.                                                             *)
(***************************************************************************)
InitLongRange ==
  /\ ParserIdle
  /\ CombineIdle
  /\ ManagerIdle
  /\ bpc = "begin"
  /\ \E d \in StartDays : startDate = NewDate(StartYear, 0, d, 0, 0)
  /\ endDate = NewDate(StartYear, maxIterations + 1, 1, 0, 0)
  /\ currentStart = NoDate
  /\ periods = <<>>
  /\ iterations = 0
  /\ availableMonths = NotCalled
  /\ monthlyBills = NotCalled
  /\ summary = NotCalled

SpecLongRange == InitLongRange /\ [][NextBilling]_vars

(***************************************************************************)
(* combineItems(transactions) on every list of at most MaxBilled           *)
(* transactions whose items are written in several ways and whose amounts  *)
(* are 50.00 or 100.00.                                                    *)
(***************************************************************************)
BilledItems == {"milk", " Milk", "bread"}

BilledAmounts == {5000, 10000}

MaxBilled == 4

InitCombine ==
  /\ ParserIdle
  /\ BillingIdle
  /\ ManagerIdle
  /\ cpc = "loop"
  /\ billed \in UNION {[1..n -> [item : BilledItems, amount : BilledAmounts]] :
                        n \in 0..MaxBilled}
  /\ ci = 1
  /\ itemMap = <<>>
  /\ billItems = <<>>

NextCombine == CombineStep \/ ReturnItems

SpecCombine == InitCombine /\ [][NextCombine]_vars

(***************************************************************************)
(* A TransactionManager constructed on an empty localStorage, and at most  *)
(* MaxCalls calls of its operations.                                       *)
(***************************************************************************)
InitManager ==
  /\ ParserIdle
  /\ BillingIdle
  /\ CombineIdle
  /\ ManagerIdle

NextManager ==
  \/ AddTransactions
  \/ ImportFromJSON
  \/ ImportRejected
  \/ UpdateTransaction
  \/ DeleteTransaction
  \/ DeleteMultipleTransactions
  \/ ClearAllTransactions

SpecManager == InitManager /\ [][NextManager]_vars

\* Uploads only: every call is addTransactions
SpecUploads == InitManager /\ [][AddTransactions]_vars

(***************************************************************************)
(* Properties of parseFile.  They are stated on the lines the loop was     *)
(* given (processedLines) and on the returned value, with the header each  *)
(* line stands under worked out from the lines alone.                      *)
(***************************************************************************)
\* The index of the last header line among lines[1..n], 0 if there is none
RECURSIVE HeaderOf(_, _)
HeaderOf(lines, n) ==
  IF n = 0 THEN 0
  ELSE IF messagePattern(Trim(lines[n])).ok THEN n ELSE HeaderOf(lines, n - 1)

\* The sender line n stands under: the normalized name of its header, ""
\* before the first header
CarriedSender(lines, n) ==
  IF HeaderOf(lines, n) = 0 THEN ""
  ELSE normalizeSenderName(messagePattern(Trim(lines[HeaderOf(lines, n)])).sender)

\* Line n stands under the target sender, whatever the case of the letters
UnderTarget(lines, n) == toLowerCase(CarriedSender(lines, n)) = "monir"

Returned == pc = "done" /\ result.returned

\* C1: every transaction, extracted or returned, comes from a line whose carried
\* sender is 'monir' in any case; the lines of other senders, their
\* continuation lines and the lines before the first header give none.
C1_OnlyTargetSender ==
  /\ \A k \in 1..Len(transactions) :
       /\ transactions[k].line \in 1..Len(processedLines)
       /\ UnderTarget(processedLines, transactions[k].line)
  /\ Returned =>
       \A k \in 1..Len(result.transactions) :
         /\ result.transactions[k].line \in 1..Len(processedLines)
         /\ UnderTarget(processedLines, result.transactions[k].line)
         /\ toLowerCase(result.transactions[k].sender) = "monir"

\* A line that holds an item and an amount by itself
HoldsPair(line) ==
  LET text == IF messagePattern(line).ok THEN messagePattern(line).message ELSE line
  IN findSimpleItemAmountPairs(text).pairs # <<>>

\* C1 witness: a returned result with a transaction of the target sender, from
\* an input that also holds another sender's header with a pair, a continuation
\* line with a pair under that header, or a line with a pair before any header
C1_Witness ==
  /\ Returned
  /\ Len(result.transactions) > 0
  /\ \E n \in 1..Len(processedLines) :
       /\ messagePattern(processedLines[n]).ok
       /\ ~UnderTarget(processedLines, n)
       /\ HoldsPair(processedLines[n])
  /\ \E n \in 1..Len(processedLines) :
       /\ ~messagePattern(processedLines[n]).ok
       /\ ~UnderTarget(processedLines, n)
       /\ HoldsPair(processedLines[n])

\* text is of the form 'item amount': a word of letters the parser takes for an
\* item, then a number within the accepted range
ItemAmountForm(text) ==
  LET words == Split(text)
  IN /\ text = Trim(text)
     /\ Len(words) = 2
     /\ \A k \in 1..Len(words[1]) : IsLetter(Char(words[1], k))
     /\ isValidItem(words[1])
     /\ AllDigits(words[2])
     /\ parseDigits(words[2]) \in 1..MaxAmount

ItemWord(text) == Split(text)[1]

AmountWord(text) == parseDigits(Split(text)[2])

\* The body of raw line n of the input: the message of a header, else the line
BodyOf(lines, n) ==
  IF messagePattern(lines[n]).ok THEN messagePattern(lines[n]).message ELSE lines[n]

\* The input is a header of the target sender followed by continuation lines,
\* every body of the form 'item amount', the items pairwise different both as
\* written and as mapped by the vocabulary
HeaderWithItemLines(lines) ==
  /\ Len(lines) >= 2
  /\ messagePattern(lines[1]).ok
  /\ UnderTarget(lines, 1)
  /\ \A n \in 2..Len(lines) : ~messagePattern(lines[n]).ok
  /\ \A n \in 1..Len(lines) : ItemAmountForm(BodyOf(lines, n))
  /\ \A m, n \in 1..Len(lines) :
       m # n =>
         /\ ItemWord(BodyOf(lines, m)) # ItemWord(BodyOf(lines, n))
         /\ standardizeTerminology(ItemWord(BodyOf(lines, m)))
              # standardizeTerminology(ItemWord(BodyOf(lines, n)))

\* The returned transactions made from line n
FromLine(n) ==
  {k \in 1..Len(result.transactions) : result.transactions[k].line = n}

\* C2: for a target-sender header followed by continuation lines, each
\* 'item amount' with pairwise different items, parseFile returns exactly one
\* transaction per line, carrying that line's item (as written or as mapped by
\* the vocabulary) and amount, and the header's sender and date.
C2_OnePerItemLine ==
  (Returned /\ HeaderWithItemLines(content)) =>
    /\ Len(result.transactions) = Len(content)
    /\ \A n \in 1..Len(content) :
         /\ Cardinality(FromLine(n)) = 1
         /\ \A k \in FromLine(n) :
              LET tr == result.transactions[k]
                  header == messagePattern(content[1])
              IN /\ tr.item \in {ItemWord(BodyOf(content, n)),
                                 standardizeTerminology(ItemWord(BodyOf(content, n)))}
                 /\ tr.amount = AmountWord(BodyOf(content, n))
                 /\ tr.sender = normalizeSenderName(header.sender)
                 /\ tr.date = parseDate(header.day, header.month, header.year,
                                        header.hours, header.minutes, header.ampm)

\* Two transactions alike in sender, item and amount
Alike(a, b) == a.sender = b.sender /\ a.item = b.item /\ a.amount = b.amount

\* Their timestamps differ by less than the window of 5 minutes
Near(a, b) == Abs(a.date - b.date) < MinutesPerWindow

\* No two returned transactions are alike and less than 5 minutes apart
CollapsedWithinWindow ==
  \A j, k \in 1..Len(result.transactions) :
    (j # k /\ Alike(result.transactions[j], result.transactions[k]))
      => ~Near(result.transactions[j], result.transactions[k])

\* Every dropped transaction is counted
DroppedAreCounted ==
  result.summary.duplicatesSkipped = Len(transactions) - Len(result.transactions)

\* A transaction is dropped only for a returned one like it within the window
KeptAcrossDays ==
  \A g \in 1..Len(groupedTransactions) :
    \E k \in 1..Len(result.transactions) :
      /\ Alike(groupedTransactions[g], result.transactions[k])
      /\ Near(groupedTransactions[g], result.transactions[k])

\* C3: extracted transactions alike in sender, grouped item and amount and
\* less than 5 minutes apart collapse to one returned transaction, every
\* dropped one is counted in summary.duplicatesSkipped, and alike transactions
\* 2 days apart do not collapse.
C3_DedupWindow ==
  Returned => (CollapsedWithinWindow /\ DroppedAreCounted /\ KeptAcrossDays)

\* At no point has the call been left by an exception; every error recorded so
\* far names a line already processed, in the order of the lines; the loop
\* ends only after the last line; the result carries the errors
ErrorsAreRecorded ==
  /\ pc # "failed"
  /\ \A k \in 1..Len(errors) :
       /\ errors[k].line \in 1..(i - 1)
       /\ errors[k].originalText = processedLines[errors[k].line]
       /\ \A j \in 1..(k - 1) : errors[j].line < errors[k].line
  /\ pc \in {"dedup", "done"} => i = Len(processedLines) + 1
  /\ pc = "done" =>
       /\ result.returned
       /\ result.errors = errors
       /\ result.summary.failedLines = Len(errors)

\* The call has returned or has a step to take: the guards of PreParse, of
\* ProcessLine and Categorize, and of Finish
ReturnedOrRunning ==
  \/ Returned
  \/ pc = "start"
  \/ pc = "parsing" /\ (i <= Len(processedLines) \/ i > Len(processedLines))
  \/ pc = "dedup"

\* The number of steps the call has left at most
StepsLeft ==
  CASE pc = "start" -> Len(content) + 3
    [] pc = "parsing" -> Len(processedLines) - i + 3
    [] pc = "dedup" -> 1
    [] OTHER -> 0

\* C6: parseFile completes and returns a result for every input: a failure in
\* one line is never thrown to the caller but appended to errors, the loop
\* goes on with the following lines, and the call, which always has a step to
\* take until it has returned, gets nearer to returning with every step.
C6_NeverThrows ==
  /\ [](ErrorsAreRecorded /\ ReturnedOrRunning)
  /\ [][StepsLeft' < StepsLeft]_vars

\* C6 witness: a returned result that records a failed line and holds a
\* transaction made from a line after it
C6_Witness ==
  /\ Returned
  /\ \E k \in 1..Len(result.errors), j \in 1..Len(result.transactions) :
       result.errors[k].line < result.transactions[j].line

\* Line n is a header or a bare date line
HasFormat(lines, n) == messagePattern(lines[n]).ok \/ dateOnlyMatch(lines[n]).ok

\* The text of line n that extraction is given: a header's message, else the line
MessageOf(lines, n) == BodyOf(lines, n)

\* No pair and no structured total is found in text, and the search ends normally
NothingExtracted(text) ==
  /\ kenaMatch(convertBengaliNumerals(text)) = ""
  /\ ~findSimpleItemAmountPairs(text).threw
  /\ findSimpleItemAmountPairs(text).pairs = <<>>

\* Line n is accounted for: a transaction was made from it, or an error or a
\* needs-review entry of the result names it
AccountedFor(n) ==
  \/ \E k \in 1..Len(transactions) : transactions[k].line = n
  \/ \E k \in 1..Len(result.errors) : result.errors[k].line = n
  \/ \E k \in 1..Len(result.suspiciousTransactions) :
       result.suspiciousTransactions[k].originalMessage = MessageOf(processedLines, n)

\* Line n matches no message format: no header, no date line, no item with an
\* amount
NoFormat(lines, n) == ~HasFormat(lines, n) /\ NothingExtracted(lines[n])

\* C7: every non-blank line that is not another sender's is accounted for by a
\* transaction, a ParseError or a needs-review entry; an input that holds a
\* target-sender message with a transaction and, before or after it, a line
\* that matches no message format returns a non-empty errors list.
C7_EveryLineAccounted ==
  Returned =>
    /\ \A n \in 1..Len(processedLines) :
         (UnderTarget(processedLines, n) \/ HeaderOf(processedLines, n) = 0)
           => AccountedFor(n)
    /\ ((\E n \in 1..Len(processedLines) : NoFormat(processedLines, n))
         /\ Len(result.transactions) > 0)
        => Len(result.errors) > 0

\* C8: a target-sender message from which no pair can be extracted has a
\* needs-review entry in the returned suspiciousTransactions that carries
\* the message text.
C8_NoPairNeedsReview ==
  Returned =>
    \A n \in 1..Len(processedLines) :
      (/\ UnderTarget(processedLines, n)
       /\ ~dateOnlyMatch(processedLines[n]).ok
       /\ NothingExtracted(MessageOf(processedLines, n)))
        => \E k \in 1..Len(result.suspiciousTransactions) :
             result.suspiciousTransactions[k].originalMessage
               = MessageOf(processedLines, n)

\* C9: every returned transaction has amount > 0 and a non-empty item,
\* whichever path made it, the structured total ("কেনা" and a number) included.
C9_PositiveAmountAndItem ==
  Returned =>
    \A k \in 1..Len(result.transactions) :
      result.transactions[k].amount > 0 /\ result.transactions[k].item # ""

\* The transaction was made by the space-separated or by the attached strategy
FromPairStrategy(tr) == tr.via \in {"spaced", "attached"}

\* The transaction was made from a structured total: its message holds "কেনা"
\* followed by a number
FromStructuredTotal(tr) ==
  tr.via = "kena" /\ kenaMatch(convertBengaliNumerals(tr.originalMessage)) # ""

WithinLimits(trs) ==
  \A k \in 1..Len(trs) :
    /\ FromPairStrategy(trs[k]) => (trs[k].amount > 0 /\ trs[k].amount <= 1000)
    /\ trs[k].amount > 1000 => FromStructuredTotal(trs[k])

\* C10: no transaction made by the space-separated or the attached strategy
\* has amount <= 0 or amount > 1000; a transaction with an amount above 1000
\* comes from a structured total.
C10_PairAmountsWithinLimits ==
  /\ WithinLimits(transactions)
  /\ Returned => WithinLimits(result.transactions)

\* C10 witness: a returned result that holds a transaction of each strategy,
\* the structured total above 1000, from an input that also holds a pair line
\* with an amount above 1000
C10_Witness ==
  /\ Returned
  /\ \E k \in 1..Len(result.transactions) :
       result.transactions[k].via = "spaced" /\ result.transactions[k].amount <= 1000
  /\ \E k \in 1..Len(result.transactions) :
       result.transactions[k].via = "kena" /\ result.transactions[k].amount > 1000
  /\ \E n \in 1..Len(processedLines) :
       /\ UnderTarget(processedLines, n)
       /\ findSimpleItemAmountPairs(processedLines[n]).threw

(***************************************************************************)
(* Properties of generateMonthPeriods.  A period is the closed range of    *)
(* the days from its startDate to its endDate.                             *)
(***************************************************************************)
PeriodsReturned == bpc = "returned"

\* No day lies in two periods
NonOverlapping ==
  \A j, k \in 1..Len(periods) :
    j < k => \/ periods[j].endDate < periods[k].startDate
             \/ periods[k].endDate < periods[j].startDate

\* Each period begins on the day after the one before it ends
NoGap ==
  \A k \in 1..(Len(periods) - 1) :
    periods[k + 1].startDate = periods[k].endDate + MinutesPerDay

\* The periods begin at start and end at end
UnionIsRange ==
  /\ Len(periods) >= 1
  /\ periods[1].startDate = startDate
  /\ periods[Len(periods)].endDate = endDate

\* C4: for start <= end the periods generateMonthPeriods returns are pairwise
\* non-overlapping, leave no gap between consecutive periods, and their union
\* is exactly the range from start to end.
C4_PeriodsPartitionRange ==
  PeriodsReturned => (NonOverlapping /\ NoGap /\ UnionIsRange)

\* The 15th a cycle begins on for a range that starts at start
CycleStart(start) ==
  IF getDate(start) >= 15 THEN NewDate(getFullYear(start), getMonth(start), 15, 0, 0)
  ELSE IF getMonth(start) = 0 THEN NewDate(getFullYear(start) - 1, 11, 15, 0, 0)
  ELSE NewDate(getFullYear(start), getMonth(start) - 1, 15, 0, 0)

\* The 14th of the month that follows the month of from, in January of the
\* next year when from is in December
FourteenthAfter(from) ==
  IF getMonth(from) = 11 THEN NewDate(getFullYear(from) + 1, 0, 14, 0, 0)
  ELSE NewDate(getFullYear(from), getMonth(from) + 1, 14, 0, 0)

Earlier(a, b) == IF a < b THEN a ELSE b

\* The periods of the range 2024-01-01 .. 2024-03-31
PeriodsOfExample ==
  <<[startDate |-> NewDate(2023, 11, 15, 0, 0), endDate |-> NewDate(2024, 0, 14, 0, 0)],
    [startDate |-> NewDate(2024, 0, 15, 0, 0), endDate |-> NewDate(2024, 1, 14, 0, 0)],
    [startDate |-> NewDate(2024, 1, 15, 0, 0), endDate |-> NewDate(2024, 2, 14, 0, 0)],
    [startDate |-> NewDate(2024, 2, 15, 0, 0), endDate |-> NewDate(2024, 2, 31, 0, 0)]>>

\* C5: every period starts on the 15th of a month and ends on the 14th of the
\* month that follows its start (January of the next year after a December
\* start), or on the requested end if that comes first; the first period
\* starts on the 15th of start's month if start.day >= 15, else on the 15th of
\* the month before; the range 2024-01-01 .. 2024-03-31 gives the four periods
\* 12-15..01-14, 01-15..02-14, 02-15..03-14, 03-15..03-31.
C5_PeriodShape ==
  PeriodsReturned =>
    /\ Len(periods) >= 1
    /\ periods[1].startDate = CycleStart(startDate)
    /\ \A k \in 1..Len(periods) :
         /\ getDate(periods[k].startDate) = 15
         /\ periods[k].endDate = Earlier(FourteenthAfter(periods[k].startDate), endDate)
    /\ (startDate = NewDate(2024, 0, 1, 0, 0) /\ endDate = NewDate(2024, 2, 31, 0, 0))
         => periods = PeriodsOfExample

\* A period begins in December
DecemberStart == \E k \in 1..Len(periods) : getMonth(periods[k].startDate) = 11

(***************************************************************************)
(* Two calls of parseFile on the same text.  The second call is the same   *)
(* steps taken in one go, under a clock of its own.                        *)
(***************************************************************************)
\* The transactions the loop of enhancedContextBasedParsing collects from
\* line k on, every `new Date()` of the call giving now
RECURSIVE collectFrom(_, _, _, _, _)
collectFrom(lines, k, date, sender, now) ==
  IF k > Len(lines) THEN <<>>
  ELSE LET step == LineStep(Trim(lines[k]), k, date, sender, now)
       IN (IF step.out.threw THEN <<>> ELSE step.out.transactions)
          \o collectFrom(lines, k + 1, step.date, step.sender, now)

\* result.transactions of a call of parseFile(text) under the clock now
transactionsOfCall(text, now) ==
  removeDuplicates(contextBasedCategorizing(collectFrom(preParse(text), 1, NoDate, "", now)))

\* The (sender, item, amount, date) tuples of a list of transactions
RECURSIVE TuplesOf(_)
TuplesOf(list) ==
  IF list = <<>> THEN <<>>
  ELSE <<(<<Head(list).sender, Head(list).item, Head(list).amount, Head(list).date>>)>>
         \o TuplesOf(Tail(list))

\* C11: a second call of parseFile on the same raw text, whatever its clock
\* reads, returns a transaction list with the same (sender, item, amount,
\* date) tuples as the first.
C11_SameTextSameTuples ==
  Returned =>
    \A now \in Clock :
      TuplesOf(transactionsOfCall(content, now)) = TuplesOf(result.transactions)

\* C11 witness: a returned call that met a line before any header, where the
\* loop reads the clock, and that returned transactions
C11_Witness ==
  /\ Returned
  /\ processedLines # <<>>
  /\ ~messagePattern(processedLines[1]).ok
  /\ ~dateOnlyMatch(processedLines[1]).ok
  /\ result.transactions # <<>>

(***************************************************************************)
(* Properties of combineItems.                                             *)
(***************************************************************************)
ItemsReturned == cpc = "returned"

\* The places of the transactions whose lowercased, trimmed item is key
GroupOfKey(key) == {k \in 1..Len(billed) : Trim(toLowerCase(billed[k].item)) = key}

RECURSIVE SumOfAmounts(_)
SumOfAmounts(places) ==
  IF places = {} THEN 0
  ELSE LET k == CHOOSE k \in places : TRUE
       IN billed[k].amount + SumOfAmounts(places \ {k})

RECURSIVE SumOfField(_, _)
SumOfField(items, field) ==
  IF items = <<>> THEN 0 ELSE Head(items)[field] + SumOfField(Tail(items), field)

\* One bill item per group, with the group's count, sum and rounded quotient
GroupedByKey ==
  /\ \A k \in 1..Len(billed) :
       \E j \in 1..Len(billItems) : billItems[j].item = Trim(toLowerCase(billed[k].item))
  /\ \A j, k \in 1..Len(billItems) : billItems[j].item = billItems[k].item => j = k
  /\ \A j \in 1..Len(billItems) :
       LET group == GroupOfKey(billItems[j].item)
       IN /\ group # {}
          /\ billItems[j].quantity = Cardinality(group)
          /\ billItems[j].totalPrice = SumOfAmounts(group)
          \* unitPrice is the hundredth nearest to totalPrice / quantity
          /\ 2 * Abs(billItems[j].unitPrice * billItems[j].quantity - billItems[j].totalPrice)
               <= billItems[j].quantity

SortedByTotal ==
  \A j, k \in 1..Len(billItems) :
    j < k => billItems[j].totalPrice >= billItems[k].totalPrice

TotalsPreserved ==
  /\ SumOfField(billItems, "quantity") = Len(billed)
  /\ SumOfField(billItems, "totalPrice") = SumOfAmounts(1..Len(billed))

\* milk:100 x3 and bread:50 x1, in any order
MilkAndBread ==
  /\ Len(billed) = 4
  /\ \A k \in 1..4 : billed[k] \in {[item |-> "milk", amount |-> 10000],
                                      [item |-> "bread", amount |-> 5000]}
  /\ Cardinality({k \in 1..4 : billed[k].item = "milk"}) = 3

\* C12: combineItems groups by lowercased, trimmed item; quantity is the
\* count, totalPrice the sum and unitPrice totalPrice / quantity rounded to
\* 2 decimals; the result is sorted by totalPrice descending; quantities sum
\* to the number of transactions and totalPrices to the sum of the amounts;
\* milk:100 x3 and bread:50 x1 give milk{3,300,100} before bread{1,50,50}.
C12_CombineItems ==
  ItemsReturned =>
    /\ GroupedByKey
    /\ SortedByTotal
    /\ TotalsPreserved
    /\ MilkAndBread =>
         billItems = <<[item |-> "milk", quantity |-> 3, unitPrice |-> 10000,
                        totalPrice |-> 30000],
                       [item |-> "bread", quantity |-> 1, unitPrice |-> 5000,
                        totalPrice |-> 5000]>>

\* C12 witness: a returned call that merged differently written names into
\* a group of 3 whose quotient is no whole hundredth, and sorted it first
\* though its first transaction came second
C12_Witness ==
  /\ ItemsReturned
  /\ Len(billItems) = 2
  /\ billItems[1].quantity = 3
  /\ billItems[1].totalPrice % 3 # 0
  /\ \E j, k \in GroupOfKey(billItems[1].item) : billed[j].item # billed[k].item
  /\ Trim(toLowerCase(billed[1].item)) = billItems[2].item

(***************************************************************************)
(* Properties of the period labels and of the iteration cap.               *)
(***************************************************************************)
BothLabelled == availableMonths # NotCalled /\ monthlyBills # NotCalled

\* The month after month index m of year y, as <<month index, year>>
MonthAfter(m, y) == IF m = 11 THEN <<0, y + 1>> ELSE <<m + 1, y>>

LabelFollowsStart(entry) ==
  <<entry.month, entry.year>>
    = MonthAfter(getMonth(entry.startDate), getFullYear(entry.startDate))

\* C13: every period is labelled with the month that follows its start
\* month, the year rolling over after December, clipped or not:
\* getAvailableMonths and the MonthBill entries give the same month and year
\* to the same period.
C13_SameLabel ==
  BothLabelled =>
    /\ \A k \in 1..Len(availableMonths.months) : LabelFollowsStart(availableMonths.months[k])
    /\ \A j \in 1..Len(monthlyBills.bills) : LabelFollowsStart(monthlyBills.bills[j])
    /\ \A k \in 1..Len(availableMonths.months), j \in 1..Len(monthlyBills.bills) :
         (/\ availableMonths.months[k].startDate = monthlyBills.bills[j].startDate
          /\ availableMonths.months[k].endDate = monthlyBills.bills[j].endDate)
         => (/\ availableMonths.months[k].month = monthlyBills.bills[j].month
             /\ availableMonths.months[k].year = monthlyBills.bills[j].year)

\* The labels getAvailableMonths gives follow the start month
AvailableFollowsStart ==
  availableMonths # NotCalled =>
    \A k \in 1..Len(availableMonths.months) : LabelFollowsStart(availableMonths.months[k])

\* The loop has taken as many iterations as it may
CapReached == iterations >= maxIterations

\* C14: when the loop of generateMonthPeriods reaches its iteration cap the
\* call fails; it does not return a period list.
C14_CapIsFatal == CapReached => ~PeriodsReturned

(***************************************************************************)
(* Properties of the extraction strategies.                                *)
(***************************************************************************)
\* The lines the loop has processed so far that stand under the target sender
ProcessedUnderTarget ==
  {n \in 1..Len(processedLines) : n < i /\ UnderTarget(processedLines, n)}

\* The (item, amount) pairs of the transactions extracted from line n
RECURSIVE PairsIn(_, _)
PairsIn(list, n) ==
  IF list = <<>> THEN <<>>
  ELSE (IF Head(list).line = n THEN <<(<<Head(list).item, Head(list).amount>>)>> ELSE <<>>)
       \o PairsIn(Tail(list), n)

\* text is one token: a vocabulary word directly followed by an amount
AttachedForm(text) ==
  LET b == RunEnd(text, 1, LatinChars)
  IN /\ b > 1
     /\ toLowerCase(SubSeq(text, 1, b - 1)) \in ItemKeys
     /\ AllDigits(SubSeq(text, b, Len(text)))
     /\ parseDigits(SubSeq(text, b, Len(text))) \in 1..MaxAmount

\* text is two tokens: a vocabulary word, white space, an amount
SpacedForm(text) == ItemAmountForm(text) /\ toLowerCase(ItemWord(text)) \in ItemKeys

\* The pair the vocabulary word w and the amount written as digits stand for
PairOf(w, digits) == <<(<<Lookup(toLowerCase(w)), parseDigits(digits)>>)>>

\* C15: for a vocabulary item w and an amount n in 1..1000 the token 'wn' and
\* the tokens 'w n' yield the same single pair, the mapped item with amount
\* n: 'tel173' and 'tel 173' both yield 'oil' with 173.
C15_StrategiesAgree ==
  \A n \in ProcessedUnderTarget :
    LET text == BodyOf(processedLines, n)
        b == RunEnd(text, 1, LatinChars)
    IN /\ SpacedForm(text) =>
            PairsIn(transactions, n) = PairOf(ItemWord(text), Split(text)[2])
       /\ AttachedForm(text) =>
            PairsIn(transactions, n)
              = PairOf(SubSeq(text, 1, b - 1), SubSeq(text, b, Len(text)))

\* The two-token half of C15 alone
SpacedYieldsPair ==
  \A n \in ProcessedUnderTarget :
    SpacedForm(BodyOf(processedLines, n)) =>
      PairsIn(transactions, n)
        = PairOf(ItemWord(BodyOf(processedLines, n)), Split(BodyOf(processedLines, n))[2])

(***************************************************************************)
(* Properties of the documented transaction patterns.                      *)
(***************************************************************************)
\* The purchase each of the bodies of PatternLines writes down
PurchaseOf ==
  "milk: 100" :> <<"milk", 100>> @@ "milk 100" :> <<"milk", 100>> @@
  "bread - 50" :> <<"bread", 50>> @@ "bread 50" :> <<"bread", 50>> @@
  "100 for rice" :> <<"rice", 100>>

\* The message of the test 'should handle different transaction patterns'
ThreePatterns ==
  <<"03/01/2024, 9:35 pm - Monir: milk: 100", "bread - 50", "100 for rice">>

\* C16: 'item amount', 'item: amount', 'item - amount' and 'amount for item'
\* are each recognized: a line of the target sender in one of these patterns
\* yields its one transaction, and the message 'milk: 100', 'bread - 50',
\* '100 for rice' returns exactly three transactions with these amounts.
C16_FourPatterns ==
  /\ \A n \in ProcessedUnderTarget :
       PairsIn(transactions, n) = <<PurchaseOf[BodyOf(processedLines, n)]>>
  /\ (Returned /\ content = ThreePatterns) =>
       /\ Len(result.transactions) = 3
       /\ \A k \in 1..3 :
            result.transactions[k].amount = PurchaseOf[BodyOf(content, k)][2]

\* The pattern 'item amount' alone
PlainPatternRecognized ==
  \A n \in ProcessedUnderTarget :
    BodyOf(processedLines, n) \in {"milk 100", "bread 50"}
      => PairsIn(transactions, n) = <<PurchaseOf[BodyOf(processedLines, n)]>>

(***************************************************************************)
(* Properties of the TransactionManager store.                             *)
(***************************************************************************)
\* No two stored transactions share an id
UniqueIds ==
  \A j, k \in 1..Len(stored) : j # k => stored[j].id # stored[k].id

\* A call of updateTransaction that returns leaves every id where it was
UpdateKeepsIds ==
  (outcome'.op = "update" /\ ~outcome'.threw) =>
     /\ Len(stored') = Len(stored)
     /\ \A k \in 1..Len(stored) : stored'[k].id = stored[k].id

\* C17: ids are unique and immutable in the store: after any sequence of
\* addTransactions, importFromJSON, updateTransaction, deleteTransaction and
\* deleteMultipleTransactions no two stored transactions share an id, and
\* updateTransaction never changes the id of the transaction it updates.
C17_UniqueImmutableIds == []UniqueIds /\ [][UpdateKeepsIds]_vars

\* The ids generateId assigns are unique among themselves
GeneratedIdsUnique ==
  \A j, k \in 1..Len(stored) :
    (j # k /\ stored[j].id = stored[k].id) => stored[j].id \in {"a", "b"}

(***************************************************************************)
(* Properties of the segmenter: the sender and the date a line is          *)
(* processed with.                                                         *)
(***************************************************************************)
\* The day, the Bengali month name and the year of a line that is a bare date
BareDateOf(line) == dateOnlyMatch(convertBengaliNumerals(line))

\* line is a bare date: a day, a Bengali month name and a year
IsBareDate(line) ==
  /\ ~messagePattern(line).ok
  /\ BareDateOf(line).ok
  /\ \E k \in 1..12 : bengaliMonths[k] = BareDateOf(line).month

\* The bare dates the pattern of the loop matches: those in Western numerals
IsMatchedDate(line) == IsBareDate(line) /\ dateOnlyMatch(line).ok

\* line counts as a bare date: any of them, or only the matched ones
CountsAsDate(line, matchedOnly) ==
  IF matchedOnly THEN IsMatchedDate(line) ELSE IsBareDate(line)

\* The date a header or a bare date line gives
DateOn(line) ==
  IF messagePattern(line).ok
  THEN parseDate(messagePattern(line).day, messagePattern(line).month,
                 messagePattern(line).year, messagePattern(line).hours,
                 messagePattern(line).minutes, messagePattern(line).ampm)
  ELSE parseDateFromComponents(BareDateOf(line).day, BareDateOf(line).month,
                               BareDateOf(line).year)

\* The date line n stands under: that of the last line among lines[1..n] that
\* is a header or counts as a bare date
RECURSIVE CarriedDate(_, _, _)
CarriedDate(lines, n, matchedOnly) ==
  IF n = 0 THEN NoDate
  ELSE IF messagePattern(Trim(lines[n])).ok \/ CountsAsDate(Trim(lines[n]), matchedOnly)
       THEN DateOn(Trim(lines[n]))
       ELSE CarriedDate(lines, n - 1, matchedOnly)

\* Every transaction of list has the sender and the date its line stands under
CarriesContext(list, matchedOnly) ==
  \A k \in 1..Len(list) :
    /\ list[k].sender = CarriedSender(processedLines, list[k].line)
    /\ list[k].date = CarriedDate(processedLines, list[k].line, matchedOnly)

\* C18: a header sets the carried sender and date, and every later line up to
\* the next header is processed with them, the date replaced only by a bare
\* date line between: each transaction has the sender of the most recent
\* header and the date of the most recent header or bare date line at or
\* before its line.
C18_CarriedContext ==
  /\ CarriesContext(transactions, FALSE)
  /\ Returned => CarriesContext(result.transactions, FALSE)

\* The same with the bare dates the loop's pattern matches, and the carried
\* state itself while the loop runs
CarriedFromMatched ==
  /\ CarriesContext(transactions, TRUE)
  /\ Returned => CarriesContext(result.transactions, TRUE)
  /\ pc = "parsing" =>
       /\ currentSender = CarriedSender(processedLines, i - 1)
       /\ currentDate = CarriedDate(processedLines, i - 1, TRUE)

\* The loop is about to process a line that counts as a bare date
AtDateLine(matchedOnly) ==
  /\ pc = "parsing"
  /\ i <= Len(processedLines)
  /\ CountsAsDate(Trim(processedLines[i]), matchedOnly)

\* The step changes the carried date to that of the line, and nothing else
OnlyDateChanges ==
  /\ currentDate' = DateOn(Trim(processedLines[i]))
  /\ currentSender' = currentSender
  /\ transactions' = transactions
  /\ errors' = errors

\* C19: a line that is a bare date (day, Bengali month name, year) changes
\* only the carried date: no transaction, no ParseError, the carried sender
\* unchanged.
C19_DateLineOnlySetsDate == [][AtDateLine(FALSE) => OnlyDateChanges]_vars

\* The same for the bare dates the loop's pattern matches
MatchedDateOnlySetsDate == [][AtDateLine(TRUE) => OnlyDateChanges]_vars

(***************************************************************************)
(* Properties of the validity filters.                                     *)
(***************************************************************************)
\* The candidate pairs of words[w..] that pass the filters, as the pairs of
\* their transactions
RECURSIVE ValidPairs(_, _)
ValidPairs(words, w) ==
  IF w > Len(words) - 1 THEN <<>>
  ELSE (IF /\ StartsWithLetter(words[w])
           /\ IsNumberWord(words[w + 1])
           /\ isValidItem(Trim(words[w]))
           /\ parseDigits(words[w + 1]) \in 1..MaxAmount
        THEN <<(<<standardizeTerminology(Trim(words[w])), parseDigits(words[w + 1])>>)>>
        ELSE <<>>)
       \o ValidPairs(words, w + 1)

\* words holds a candidate pair the filters reject
RECURSIVE HasRejected(_, _)
HasRejected(words, w) ==
  /\ w <= Len(words) - 1
  /\ \/ /\ StartsWithLetter(words[w])
        /\ IsNumberWord(words[w + 1])
        /\ ~(isValidItem(Trim(words[w])) /\ parseDigits(words[w + 1]) \in 1..MaxAmount)
     \/ HasRejected(words, w + 1)

WordsOf(n) == Split(convertBengaliNumerals(BodyOf(processedLines, n)))

\* C20: a candidate pair the validity filters reject (an item of the rejection
\* list, an amount <= 0 or > 1000) prevents only its own record: the valid
\* pairs of the same line, and the pairs of later lines, still produce their
\* transactions.
C20_RejectionIsLocal ==
  \A n \in ProcessedUnderTarget : PairsIn(transactions, n) = ValidPairs(WordsOf(n), 1)

\* A line without a rejected pair produces its transactions, whatever the
\* lines before it hold
LaterLinesProduce ==
  \A n \in ProcessedUnderTarget :
    ~HasRejected(WordsOf(n), 1) => PairsIn(transactions, n) = ValidPairs(WordsOf(n), 1)

\* A line with a rejected pair produces nothing and is recorded as an error
RejectionDropsLine ==
  \A n \in ProcessedUnderTarget :
    HasRejected(WordsOf(n), 1) =>
      /\ PairsIn(transactions, n) = <<>>
      /\ \E k \in 1..Len(errors) : errors[k].line = n

(***************************************************************************)
(* Properties of the errors parseFile returns.                             *)
(***************************************************************************)
\* The line field of every returned error is a line number of the raw text,
\* and failedLines counts the errors
ErrorsWithinInput ==
  Returned =>
    /\ \A k \in 1..Len(result.errors) :
         result.errors[k].line \in 1..result.summary.totalLines
    /\ result.summary.totalLines = Len(content)
    /\ result.summary.failedLines = Len(result.errors)

\* C21: every returned ParseError identifies the offending line of the raw
\* input: line is the 1-based position of that line in the raw text (blank
\* lines counted), within 1..summary.totalLines, originalText is that raw
\* line trimmed, and summary.failedLines is the number of errors.
C21_ErrorsNameRawLine ==
  /\ ErrorsWithinInput
  /\ Returned =>
       \A k \in 1..Len(result.errors) :
         result.errors[k].originalText = Trim(content[result.errors[k].line])

(***************************************************************************)
(* Properties of the Similarity Grouper.  A grouped transaction is traced  *)
(* to the extracted one by its id.                                         *)
(***************************************************************************)
\* contextBasedCategorizing has returned
Grouped == pc \in {"dedup", "done"}

\* The transaction as it was extracted
OriginalOf(t) ==
  transactions[CHOOSE k \in 1..Len(transactions) : transactions[k].id = t.id]

OriginalKey(t) == getNormalizedItemKey(OriginalOf(t).item)

\* C22: after contextBasedCategorizing any two transactions whose normalized
\* item keys are equal, or whose keys' character sets have Jaccard similarity
\* above 0.2, carry the same item label, for every number of keys and every
\* order of them.
C22_SimilarKeysSameLabel ==
  Grouped =>
    \A a, b \in 1..Len(groupedTransactions) :
      (\/ OriginalKey(groupedTransactions[a]) = OriginalKey(groupedTransactions[b])
       \/ IsSimilar(OriginalKey(groupedTransactions[a]),
                    OriginalKey(groupedTransactions[b])))
        => groupedTransactions[a].item = groupedTransactions[b].item

\* Equal keys carry the same label
EqualKeysSameLabel ==
  Grouped =>
    \A a, b \in 1..Len(groupedTransactions) :
      OriginalKey(groupedTransactions[a]) = OriginalKey(groupedTransactions[b])
        => groupedTransactions[a].item = groupedTransactions[b].item

\* The original item strings of the merged group that carries the label
\* name, one for each of its transactions
RECURSIVE NamesOfGroup(_, _)
NamesOfGroup(list, name) ==
  IF list = <<>> THEN <<>>
  ELSE (IF Head(list).item = name THEN <<OriginalOf(Head(list)).item>> ELSE <<>>)
       \o NamesOfGroup(Tail(list), name)

\* name occurs at least as often in names as every other string
MostFrequentIn(names, name) ==
  \A k \in 1..Len(names) : CountOf(names, name) >= CountOf(names, names[k])

\* name is the display name the rule gives the group: the most frequent
\* string, and among several most frequent ones a shortest that does not
\* start with a digit
IsBestName(names, name) ==
  /\ MostFrequentIn(names, name)
  /\ \A k \in 1..Len(names) :
       (MostFrequentIn(names, names[k]) /\ ~IsDigit(Char(names[k], 1)))
         => (~IsDigit(Char(name, 1)) /\ Len(name) <= Len(names[k]))

\* C23: the display name of every merged group is the most frequently
\* occurring original item string of the group; only when several strings
\* tie for the highest frequency the shortest one that does not start with a
\* digit is chosen.
C23_MostFrequentName ==
  Grouped =>
    \A k \in 1..Len(groupedTransactions) :
      IsBestName(NamesOfGroup(groupedTransactions, groupedTransactions[k].item),
                 groupedTransactions[k].item)

\* The display name is one of the group's original item strings
NameFromGroup ==
  Grouped =>
    \A k \in 1..Len(groupedTransactions) :
      CountOf(NamesOfGroup(groupedTransactions, groupedTransactions[k].item),
              groupedTransactions[k].item) > 0

(***************************************************************************)
(* Properties of the grouping followed by the removal of duplicates.       *)
(***************************************************************************)
\* The extracted transaction t is among the returned ones
IsReturned(t) == \E k \in 1..Len(result.transactions) : result.transactions[k].id = t.id

\* Two extracted transactions of one message: they stand under the same header
SameMessage(a, b) == HeaderOf(processedLines, a.line) = HeaderOf(processedLines, b.line)

\* C27: parseFile never drops a transaction as a duplicate of one that was
\* extracted from a different item string: two purchases of different items
\* in the same target-sender message both appear in the result, each with
\* its own amount, also when their amounts are equal.
C27_DifferentItemsBothKept ==
  Returned =>
    \A a, b \in 1..Len(transactions) :
      (transactions[a].item # transactions[b].item
         /\ SameMessage(transactions[a], transactions[b]))
        => \E j, k \in 1..Len(result.transactions) :
              /\ j # k
              /\ result.transactions[j].id = transactions[a].id
              /\ result.transactions[j].amount = transactions[a].amount
              /\ result.transactions[k].id = transactions[b].id
              /\ result.transactions[k].amount = transactions[b].amount

\* Purchases of items that are not similar are both returned
DissimilarItemsBothKept ==
  Returned =>
    \A a, b \in 1..Len(transactions) :
      (/\ transactions[a].item # transactions[b].item
       /\ SameMessage(transactions[a], transactions[b])
       /\ \A c \in 1..Len(transactions) :
            /\ ~IsSimilar(getNormalizedItemKey(transactions[a].item),
                          getNormalizedItemKey(transactions[c].item))
            /\ ~IsSimilar(getNormalizedItemKey(transactions[b].item),
                          getNormalizedItemKey(transactions[c].item)))
        => IsReturned(transactions[a]) /\ IsReturned(transactions[b])

(***************************************************************************)
(* The frame of the Similarity Grouper.                                    *)
(***************************************************************************)
\* t differs from the transaction it was extracted as in its item at most
OnlyItemChanged(t) ==
  /\ \E k \in 1..Len(transactions) : transactions[k].id = t.id
  /\ t = [OriginalOf(t) EXCEPT !.item = t.item]

\* No two transactions of list have the same id
DistinctIds(list) == \A j, k \in 1..Len(list) : j # k => list[j].id # list[k].id

\* The transactions that carry the label of t are one merged group: the key
\* of one of them is equal or similar to the key of each
OneMergedGroup(list, t) ==
  \E o \in 1..Len(list) :
    /\ list[o].item = t.item
    /\ \A k \in 1..Len(list) :
         list[k].item = t.item =>
           \/ OriginalKey(list[k]) = OriginalKey(list[o])
           \/ IsSimilar(OriginalKey(list[o]), OriginalKey(list[k]))

\* C30: contextBasedCategorizing changes nothing but the item field: it
\* returns as many transactions as it receives, each keeps its id, sender,
\* date, amount and originalMessage, and the new item of every transaction
\* is one of the original item strings of its own merged group.
C30_OnlyItemRewritten ==
  Grouped =>
    /\ Len(groupedTransactions) = Len(transactions)
    /\ DistinctIds(transactions)
    /\ DistinctIds(groupedTransactions)
    /\ \A k \in 1..Len(groupedTransactions) :
         /\ OnlyItemChanged(groupedTransactions[k])
         /\ OneMergedGroup(groupedTransactions, groupedTransactions[k])
         /\ CountOf(NamesOfGroup(groupedTransactions, groupedTransactions[k].item),
                    groupedTransactions[k].item) > 0

\* The grouper has rewritten the item of one of three transactions
C30_Witness ==
  /\ Grouped
  /\ Len(groupedTransactions) = 3
  /\ \E k \in 1..3 : groupedTransactions[k].item # OriginalOf(groupedTransactions[k]).item
  /\ \E k \in 1..3 : groupedTransactions[k].item = OriginalOf(groupedTransactions[k]).item

(***************************************************************************)
(* The duplicate rule of the manager, read off the stores that uploads     *)
(* build.                                                                  *)
(***************************************************************************)
\* The last call was addTransactions and changed the list by what it added
Uploaded == outcome.op = "add"

\* The transactions of the given array that are valid and that the rule says
\* repeat none of the existing ones
NewUnder(rule(_, _), given, existing, now) ==
  {k \in 1..Len(given) :
     /\ validateTransaction(given[k], now)
     /\ ~\E e \in 1..Len(existing) : rule(existing[e], given[k])}

SameBasicInfo(a, b) == a.sender = b.sender /\ a.item = b.item /\ a.amount = b.amount

\* The normalized messages are nearer than a tenth of the longer one
NearIdentical(a, b) ==
  10 * levenshteinDistance(normalizeMsg(a.originalMessage), normalizeMsg(b.originalMessage))
    < Longer(normalizeMsg(a.originalMessage), normalizeMsg(b.originalMessage))

Comparable(a, b) == a.originalMessage # "" /\ b.originalMessage # ""

\* The rule with the 30 minutes for transactions without a message only
RuleOfMissingText(a, b) ==
  /\ SameBasicInfo(a, b)
  /\ \/ Abs(a.date - b.date) < 5
     \/ Abs(a.date - b.date) < MinutesPerDay /\ Comparable(a, b) /\ NearIdentical(a, b)
     \/ ~Comparable(a, b) /\ Abs(a.date - b.date) < 30

\* The rule with the 30 minutes for every pair of transactions
RuleOfHalfHour(a, b) ==
  /\ SameBasicInfo(a, b)
  /\ \/ Abs(a.date - b.date) < 5
     \/ Abs(a.date - b.date) < MinutesPerDay /\ Comparable(a, b) /\ NearIdentical(a, b)
     \/ Abs(a.date - b.date) < 30

\* C24: isDuplicateTransaction(a, b) is true exactly when sender, item and
\* amount are equal and the timestamps differ by less than 5 minutes, or by
\* less than 1 day with normalized messages nearer than 10% of the longer
\* one, or by less than 30 minutes when a message is missing, and only then:
\* every call of addTransactions adds exactly the valid transactions that
\* this rule finds to repeat no stored one.
C24_HalfHourOnlyWithoutText ==
  [][outcome'.op = "add" =>
       Len(stored') - Len(stored)
         = Cardinality(NewUnder(RuleOfMissingText, outcome'.given, stored, Now))]_vars

\* C24, amended: the 30 minutes hold for every pair with equal sender, item
\* and amount, whether or not both carry a message and however the messages
\* compare.
C24_HalfHourRule ==
  [][outcome'.op = "add" =>
       Len(stored') - Len(stored)
         = Cardinality(NewUnder(RuleOfHalfHour, outcome'.given, stored, Now))]_vars

\* An upload added nothing because its transaction came ten minutes after a
\* stored one with another message
C24_Witness ==
  /\ Uploaded
  /\ ~outcome.threw
  /\ outcome.notified = <<>>
  /\ \E k \in 1..Len(outcome.given), e \in 1..Len(stored) :
       /\ validateTransaction(outcome.given[k], Now - 1)
       /\ SameBasicInfo(stored[e], outcome.given[k])
       /\ Comparable(stored[e], outcome.given[k])
       /\ ~NearIdentical(stored[e], outcome.given[k])
       /\ Abs(stored[e].date - outcome.given[k].date) \in 5..29
       /\ ~\E f \in 1..Len(stored) : RuleOfMissingText(stored[f], outcome.given[k])

C28_NoStoredDuplicates ==
  \A j, k \in 1..Len(stored) :
    j # k => ~isDuplicateTransaction(stored[j], stored[k])

\* Transactions that came in different calls are no duplicates of each other
NoDuplicatesAcrossCalls ==
  \A j, k \in 1..Len(stored) :
    stored[j].createdAt # stored[k].createdAt
      => ~isDuplicateTransaction(stored[j], stored[k])

(***************************************************************************)
(* Calls that fail.                                                        *)
(***************************************************************************)
\* C29: a failed operation has no effect: when addTransactions,
\* updateTransaction or deleteTransaction rejects (unknown id, failed
\* validation, saveToStorage throws), the list in memory is as before the
\* call and no listener is notified.
C29_FailedCallNoEffect ==
  [][(outcome'.threw /\ outcome'.op \in {"add", "update", "delete"})
       => (stored' = stored /\ outcome'.notified = <<>>)]_vars

\* A call that fails before it saves leaves the list, and no call that
\* fails notifies a listener
FailureBeforeSaveNoEffect ==
  [][outcome'.threw =>
       /\ outcome'.notified = <<>>
       /\ saved' = saved
       /\ outcome'.message \in {"Transaction not found", "Validation failed"}
            => stored' = stored]_vars

(***************************************************************************)
(* The bills of a summary.                                                 *)
(***************************************************************************)
Summarized == summary # NotCalled

\* The sum of the totalAmount of the bills of a sequence
RECURSIVE SumOfTotals(_)
SumOfTotals(bills) ==
  IF bills = <<>> THEN 0 ELSE Head(bills).totalAmount + SumOfTotals(Tail(bills))

\* The sum of the totalAmount of the bills of a set
RECURSIVE SumOfDays(_)
SumOfDays(bills) ==
  IF bills = {} THEN 0
  ELSE LET bill == CHOOSE b \in bills : TRUE
       IN bill.totalAmount + SumOfDays(bills \ {bill})

\* Every transaction inside the period is counted in exactly one DayBill,
\* and the totals of the DayBills sum to grandTotal
DaysCountEachOnce ==
  Summarized =>
    /\ \A k \in summary.filtered :
         Cardinality({bill \in summary.dailyBills : k \in bill.counted}) = 1
    /\ SumOfDays(summary.dailyBills) = summary.grandTotal

\* Every transaction inside the period is counted in exactly one MonthBill,
\* and the totals of the MonthBills sum to grandTotal
MonthsCountEachOnce ==
  Summarized =>
    /\ \A k \in summary.filtered :
         Cardinality({j \in 1..Len(summary.monthlyBills) :
                        k \in summary.monthlyBills[j].counted}) = 1
    /\ SumOfTotals(summary.monthlyBills) = summary.grandTotal

\* C26: in generateBillingSummary every transaction whose date lies inside
\* the requested period, at any time of day, is counted in exactly one
\* MonthBill and in exactly one DayBill, so the totalAmount of the MonthBills
\* and the totalAmount of the DayBills each sum to grandTotal.
C26_EveryTransactionBilledOnce == DaysCountEachOnce /\ MonthsCountEachOnce

============================================================================
